---------------------------- MODULE Spec2Model ----------------------------
(***************************************************************************)
(* Geometry and coordinate-transform pipeline of the labelling app:        *)
(*   - getRenderedImageLayout and the overlays of the analysis screen,     *)
(*   - scalePathToImage, the SVG path scaler of SegmentOverlay,            *)
(*   - the cutout operations of the ImageProcessor service.                *)
(*                                                                         *)
(* Numbers.  A JavaScript number is modelled as an exact extended rational *)
(* <<n, d>> in lowest terms with d >= 0:  d > 0 is the rational n/d,       *)
(* <<1,0>> is Infinity, <<-1,0>> is -Infinity and <<0,0>> is NaN.  The     *)
(* binary rounding of IEEE doubles is not modelled; the decimal rounding   *)
(* of Number.prototype.toFixed is.                                         *)
(***************************************************************************)
EXTENDS Integers, Sequences, FiniteSets, TLC

(***************************************************************************)
(* Extended rational arithmetic (JavaScript number semantics).             *)
(***************************************************************************)
Abs(n) == IF n < 0 THEN -n ELSE n

Sgn(n) == IF n < 0 THEN -1 ELSE IF n > 0 THEN 1 ELSE 0

RECURSIVE GCD(_, _)
GCD(a, b) == IF b = 0 THEN a ELSE GCD(b, a % b)

\* n/d in lowest terms; d = 0 gives Infinity, -Infinity or NaN by the sign of n
Rat(n, d) ==
    IF d = 0 THEN <<Sgn(n), 0>>
    ELSE LET g == GCD(Abs(n), Abs(d))
             s == Sgn(d)
         IN  <<(s * n) \div g, (s * d) \div g>>

NaN == <<0, 0>>

Num(n) == <<n, 1>>

IsNaN(a) == a = NaN

IsFinite(a) == a[2] > 0

RNeg(a) == <<-a[1], a[2]>>

RAdd(a, b) ==
    IF IsNaN(a) \/ IsNaN(b) THEN NaN
    ELSE IF ~IsFinite(a) /\ ~IsFinite(b) THEN (IF a = b THEN a ELSE NaN)
    ELSE IF ~IsFinite(a) THEN a
    ELSE IF ~IsFinite(b) THEN b
    ELSE Rat(a[1] * b[2] + b[1] * a[2], a[2] * b[2])

RSub(a, b) == RAdd(a, RNeg(b))

RMul(a, b) ==
    IF IsNaN(a) \/ IsNaN(b) THEN NaN
    ELSE IF ~IsFinite(a) \/ ~IsFinite(b) THEN <<Sgn(a[1]) * Sgn(b[1]), 0>>
    ELSE Rat(a[1] * b[1], a[2] * b[2])

RDiv(a, b) ==
    IF IsNaN(a) \/ IsNaN(b) THEN NaN
    ELSE IF ~IsFinite(a) /\ ~IsFinite(b) THEN NaN
    ELSE IF ~IsFinite(a) THEN <<a[1] * (IF b[1] < 0 THEN -1 ELSE 1), 0>>
    ELSE IF ~IsFinite(b) THEN Num(0)
    ELSE IF b[1] = 0 THEN <<Sgn(a[1]), 0>>
    ELSE Rat(a[1] * b[2], a[2] * b[1])

\* a < b; every comparison with NaN is false
RLt(a, b) ==
    IF IsNaN(a) \/ IsNaN(b) THEN FALSE
    ELSE IF ~IsFinite(a) /\ ~IsFinite(b) THEN a[1] < b[1]
    ELSE IF ~IsFinite(a) THEN a[1] < 0
    ELSE IF ~IsFinite(b) THEN b[1] > 0
    ELSE a[1] * b[2] < b[1] * a[2]

RGt(a, b) == RLt(b, a)

RLe(a, b) == RLt(a, b) \/ (~IsNaN(a) /\ a = b)

\* Math.ceil of a finite number, as an integer
Ceil(a) == IF a[1] % a[2] = 0 THEN a[1] \div a[2] ELSE (a[1] \div a[2]) + 1

(***************************************************************************)
(* Bounds of the layout model.                                             *)
(***************************************************************************)
\* container sides are 100, 200, ... 100 * MaxContainerUnits pixels
MaxContainerUnits == 4

\* aspect ratios are a/b with a, b in 1..MaxAspectTerm
MaxAspectTerm == 4

\* at most MaxBoxes regions in one detection result
MaxBoxes == 2

ContainerSides == {100 * k : k \in 1..MaxContainerUnits}

AspectRatios == {Rat(a, b) : a, b \in 1..MaxAspectTerm}

\* a Region of the detection endpoint, coordinates given in tenths
Region(x0, y0, x1, y1) ==
    [x_min |-> Rat(x0, 10), y_min |-> Rat(y0, 10),
     x_max |-> Rat(x1, 10), y_max |-> Rat(y1, 10)]

Regions == {Region(1, 2, 5, 6), Region(0, 0, 10, 10), Region(3, 1, 4, 9)}

RECURSIVE SeqsUpTo(_, _)
SeqsUpTo(S, n) ==
    IF n = 0 THEN {<<>>}
    ELSE LET shorter == SeqsUpTo(S, n - 1)
         IN  shorter \cup {Append(s, e) : s \in {t \in shorter : Len(t) = n - 1}, e \in S}

ZeroLayout == [x |-> Num(0), y |-> Num(0), width |-> Num(0), height |-> Num(0)]

VARIABLES
    containerWidth,     \* imageDimensions.width of the analysis screen
    containerHeight,    \* imageDimensions.height
    imageAspectRatio,   \* imageAspectRatio state
    objects,            \* result.objects: the Regions of a detection result
    imageLayout,        \* the layout renderOverlays computed
    drawnBoxes,         \* the style rectangles BoundingBoxOverlay rendered
    ovPc,               \* "input" before, "rendered" after renderOverlays
    svgPath,            \* the path string given to scalePathToImage, as tokens
    pathLayout,         \* the layout (x, y, width, height) it is scaled with
    scaledPath,         \* what scalePathToImage returned (or that it threw)
    roundTrip,          \* the scaled path scaled back with (1/s, 1/s, 0, 0)
    pathPc,             \* "input", "scaled", "back"
    srcImage,           \* the source image file: decodable or not, its pixel size
    windowWidth,        \* Dimensions.get('window').width
    segPath,            \* result.segment.path, as tokens
    segBbox,            \* result.segment.bbox
    segLayout,          \* the imageLayout prop given to SegmentOverlay
    segOverlay,         \* the scaled path SegmentOverlay draws
    segPc,              \* "none" before, "rendered" after the overlay is drawn
    req,                \* the cutout requests: position and locals of each call
    cache,              \* FileSystem.cacheDirectory: file name -> content
    now,                \* Date.now()
    api,                \* one call of a Vision API method: its position and locals
    detected,           \* a detect or point result with the props of its overlay
    drawn,              \* the boxes and markers the overlay rendered for it
    mkPc,               \* "input" before, "rendered" after the overlay is drawn
    screen,             \* the state of the analysis screen and its requests in flight
    keyStore,           \* the API key store: its state, AsyncStorage and its calls in progress
    editor,             \* the editor screen: its layers, the active layer and the canvas size
    camera              \* camera screen: view mode, images, pending awaits

varsOverlay ==
    <<containerWidth, containerHeight, imageAspectRatio, objects, imageLayout,
      drawnBoxes, ovPc>>

varsPath == <<svgPath, pathLayout, scaledPath, roundTrip, pathPc>>

varsSegment == <<srcImage, windowWidth, segPath, segBbox, segLayout, segOverlay, segPc>>

varsCutout == <<varsSegment, req, cache, now>>

varsApi == <<api>>

varsMarkers == <<detected, drawn, mkPc>>

varsScreen == <<screen>>

varsKeys == <<keyStore>>

varsEditor == <<editor>>

varsCamera == <<camera>>

vars ==
    <<varsOverlay, varsPath, varsCutout, varsApi, varsMarkers,
      varsScreen, varsKeys, varsEditor, varsCamera>>

\* what the actions of one part of the model leave alone
outsideOverlay ==
    <<varsPath, varsCutout, varsApi, varsMarkers, varsScreen, varsKeys,
      varsEditor, varsCamera>>

outsidePath ==
    <<varsOverlay, varsCutout, varsApi, varsMarkers, varsScreen,
      varsKeys, varsEditor, varsCamera>>

outsideCutout ==
    <<varsOverlay, varsPath, varsApi, varsMarkers, varsScreen, varsKeys,
      varsEditor, varsCamera>>

outsideApi ==
    <<varsOverlay, varsPath, varsCutout, varsMarkers, varsScreen,
      varsKeys, varsEditor, varsCamera>>

outsideMarkers ==
    <<varsOverlay, varsPath, varsCutout, varsApi, varsScreen, varsKeys,
      varsEditor, varsCamera>>

outsideScreen ==
    <<varsOverlay, varsPath, varsCutout, varsApi, varsMarkers, varsKeys,
      varsEditor, varsCamera>>

outsideKeys ==
    <<varsOverlay, varsPath, varsCutout, varsApi, varsMarkers,
      varsScreen, varsEditor, varsCamera>>

outsideEditor ==
    <<varsOverlay, varsPath, varsCutout, varsApi, varsMarkers,
      varsScreen, varsKeys, varsCamera>>

outsideCamera ==
    <<varsOverlay, varsPath, varsCutout, varsApi, varsMarkers,
      varsScreen, varsKeys, varsEditor>>

\* the result of a call that has not been made yet
NoResult == [threw |-> FALSE, items |-> <<>>, d |-> ""]

IdleOverlay ==
    /\ containerWidth = Num(0)
    /\ containerHeight = Num(0)
    /\ imageAspectRatio = Num(0)
    /\ objects = <<>>
    /\ imageLayout = ZeroLayout
    /\ drawnBoxes = <<>>
    /\ ovPc = "idle"

IdlePath ==
    /\ svgPath = <<>>
    /\ pathLayout = ZeroLayout
    /\ scaledPath = NoResult
    /\ roundTrip = NoResult
    /\ pathPc = "idle"

IdleCutout ==
    /\ srcImage = [ok |-> FALSE, width |-> 0, height |-> 0]
    /\ windowWidth = 0
    /\ segPath = <<>>
    /\ segBbox = [x_min |-> Num(0), y_min |-> Num(0), x_max |-> Num(0), y_max |-> Num(0)]
    /\ segLayout = ZeroLayout
    /\ segOverlay = NoResult
    /\ segPc = "idle"
    /\ req = <<>>
    /\ cache = <<>>
    /\ now = 0

\* no error has been thrown
NoError == [name |-> "", message |-> ""]

\* a Vision API method that has not been called
IdleCall ==
    [method |-> "", apiKey |-> "", readable |-> FALSE, pc |-> "idle", reads |-> 0,
     requests |-> 0, rejected |-> FALSE, status |-> 0, body |-> "", thrown |-> NoError,
     returned |-> ""]

IdleApi == api = IdleCall

\* nothing detected, nothing drawn
NoDetection ==
    [objects |-> <<>>, points |-> <<>>, objectName |-> "", imageWidth |-> Num(0),
     imageHeight |-> Num(0), imageLayout |-> ZeroLayout]

NothingDrawn == [boxes |-> <<>>, markers |-> <<>>]

IdleMarkers == detected = NoDetection /\ drawn = NothingDrawn /\ mkPc = "idle"

\* the analysis screen holds no result
NoAnalysis == [kind |-> "none", count |-> 0, mode |-> "", image |-> 0]

\* the analysis screen is not mounted
IdleScreen ==
    screen =
        [imageUri |-> 0, selectedMode |-> "", isLoading |-> FALSE, error |-> "",
         result |-> NoAnalysis, inputText |-> <<>>,
         imageDimensions |-> [width |-> Num(0), height |-> Num(0)],
         imageAspectRatio |-> Num(0), sizeLookups |-> {}, inFlight |-> <<>>,
         started |-> 0, sent |-> 0, ended |-> 0]

\* an AsyncStorage item that was never set
NoItem == [present |-> FALSE, value |-> <<>>]

\* the API key provider is not mounted
IdleKeys ==
    keyStore =
        [apiKeys |-> <<>>, activeKeyId |-> 0, isLoading |-> FALSE,
         storedKeys |-> NoItem, storedActive |-> 0,
         load |-> [pc |-> "idle", keysJson |-> NoItem, activeId |-> 0],
         calls |-> <<>>, added |-> {}, removed |-> {}, early |-> FALSE]

\* the editor screen is not mounted
IdleEditor ==
    editor =
        [layers |-> <<>>, activeLayerId |-> 0, canvasSize |-> "", customCanvasWidth |-> <<>>,
         customCanvasHeight |-> <<>>, created |-> 0, crashed |-> FALSE]

\* the camera screen is not mounted
IdleCamera ==
    camera =
        [viewMode |-> "", granted |-> FALSE, selectedImages |-> <<>>, activeImageIndex |-> 0,
         picker |-> "none", captures |-> <<>>, pickers |-> 0, shots |-> 0, stale |-> FALSE]

(***************************************************************************)
(* analysis.tsx: getRenderedImageLayout                                    *)
(***************************************************************************)
\* mutant: the branch condition compares the wrong way round
getRenderedImageLayout_flipped(cw, ch, ar) ==
    LET containerAspectRatio == RDiv(cw, ch)
    IN  IF RLt(containerAspectRatio, ar)
        THEN LET renderWidth == RMul(ch, ar)
             IN  [x |-> RDiv(RSub(cw, renderWidth), Num(2)), y |-> Num(0),
                  width |-> renderWidth, height |-> ch]
        ELSE LET renderHeight == RDiv(cw, ar)
             IN  [x |-> Num(0), y |-> RDiv(RSub(ch, renderHeight), Num(2)),
                  width |-> cw, height |-> renderHeight]

\* mutant: the offsets are not halved (the image is not centred)
getRenderedImageLayout_uncentred(cw, ch, ar) ==
    LET containerAspectRatio == RDiv(cw, ch)
    IN  IF RGt(containerAspectRatio, ar)
        THEN LET renderWidth == RMul(ch, ar)
             IN  [x |-> RSub(cw, renderWidth), y |-> Num(0),
                  width |-> renderWidth, height |-> ch]
        ELSE LET renderHeight == RDiv(cw, ar)
             IN  [x |-> Num(0), y |-> RSub(ch, renderHeight),
                  width |-> cw, height |-> renderHeight]

getRenderedImageLayout(cw, ch, ar) ==
    LET containerAspectRatio == RDiv(cw, ch)
    IN  IF RGt(containerAspectRatio, ar)
        THEN \* pillarboxing
             LET renderHeight == ch
                 renderWidth == RMul(ch, ar)
             IN  [x |-> RDiv(RSub(cw, renderWidth), Num(2)), y |-> Num(0),
                  width |-> renderWidth, height |-> renderHeight]
        ELSE \* letterboxing
             LET renderWidth == cw
                 renderHeight == RDiv(cw, ar)
             IN  [x |-> Num(0), y |-> RDiv(RSub(ch, renderHeight), Num(2)),
                  width |-> renderWidth, height |-> renderHeight]

(***************************************************************************)
(* BoundingBoxOverlay.tsx: the style rectangle of every box.  The          *)
(* component destructures boxes, imageWidth, imageHeight and objectName;   *)
(* the imageLayout prop that renderOverlays passes is not read.            *)
(***************************************************************************)
BoxStyle(box, imageWidth, imageHeight) ==
    [left |-> RMul(box.x_min, imageWidth),
     top |-> RMul(box.y_min, imageHeight),
     width |-> RMul(RSub(box.x_max, box.x_min), imageWidth),
     height |-> RMul(RSub(box.y_max, box.y_min), imageHeight)]

BoundingBoxOverlay(boxes, imageWidth, imageHeight, layout) ==
    IF Len(boxes) = 0 THEN <<>>
    ELSE [i \in 1..Len(boxes) |-> BoxStyle(boxes[i], imageWidth, imageHeight)]

(***************************************************************************)
(* analysis.tsx: renderOverlays                                            *)
(***************************************************************************)
InitOverlay ==
    /\ containerWidth \in {Num(s) : s \in ContainerSides}
    /\ containerHeight \in {Num(s) : s \in ContainerSides}
    /\ imageAspectRatio \in AspectRatios
    /\ objects \in SeqsUpTo(Regions, MaxBoxes)
    /\ imageLayout = ZeroLayout
    /\ drawnBoxes = <<>>
    /\ ovPc = "input"
    /\ IdlePath
    /\ IdleCutout
    /\ IdleApi
    /\ IdleMarkers
    /\ IdleScreen
    /\ IdleKeys
    /\ IdleEditor
    /\ IdleCamera

RenderOverlays ==
    /\ ovPc = "input"
    /\ imageLayout' = getRenderedImageLayout(containerWidth, containerHeight, imageAspectRatio)
    /\ drawnBoxes' =
           IF Len(objects) > 0
           THEN BoundingBoxOverlay(objects, containerWidth, containerHeight, imageLayout')
           ELSE <<>>
    /\ ovPc' = "rendered"
    /\ UNCHANGED <<containerWidth, containerHeight, imageAspectRatio, objects>>
    /\ UNCHANGED outsideOverlay

NextOverlay == RenderOverlays

SpecOverlay == InitOverlay /\ [][NextOverlay]_vars

(***************************************************************************)
(* Claims about the layout and the bounding-box overlay (SpecOverlay).     *)
(***************************************************************************)
Rendered == ovPc = "rendered"

\* the container's aspect ratio compared with the image's, by cross-multiplication
ContainerWider ==
    containerWidth[1] * imageAspectRatio[2] > imageAspectRatio[1] * containerHeight[1]

ContainerTaller ==
    containerWidth[1] * imageAspectRatio[2] < imageAspectRatio[1] * containerHeight[1]

\* C1: every box the bounding-box overlay draws sits at
\* left = layout.x + x_min * layout.width, top = layout.y + y_min * layout.height
\* with width (x_max - x_min) * layout.width and height (y_max - y_min) *
\* layout.height, for the layout computed for the displayed image.
C1_BoxesFollowLayout ==
    Rendered =>
        /\ Len(drawnBoxes) = Len(objects)
        /\ \A i \in 1..Len(drawnBoxes) :
               /\ drawnBoxes[i].left =
                      RAdd(imageLayout.x, RMul(objects[i].x_min, imageLayout.width))
               /\ drawnBoxes[i].top =
                      RAdd(imageLayout.y, RMul(objects[i].y_min, imageLayout.height))
               /\ drawnBoxes[i].width =
                      RMul(RSub(objects[i].x_max, objects[i].x_min), imageLayout.width)
               /\ drawnBoxes[i].height =
                      RMul(RSub(objects[i].y_max, objects[i].y_min), imageLayout.height)

\* C2: for positive inputs both offsets are >= 0, exactly one of them is 0 when
\* the container's aspect ratio differs from the image's, and both are 0 when
\* the two ratios are equal.
C2_OffsetsNonNegativeOneZero ==
    Rendered =>
        /\ RLe(Num(0), imageLayout.x)
        /\ RLe(Num(0), imageLayout.y)
        /\ (ContainerWider \/ ContainerTaller) =>
               ((imageLayout.x = Num(0)) # (imageLayout.y = Num(0)))
        /\ (~ContainerWider /\ ~ContainerTaller) =>
               (imageLayout.x = Num(0) /\ imageLayout.y = Num(0))

\* C2 witness: a rendered pillarboxed image (ratios differ, offsetX > 0)
C2_Witness ==
    Rendered /\ ContainerWider /\ RGt(imageLayout.x, Num(0)) /\ imageLayout.y = Num(0)

\* C3: the layout is the centred contain-fit rectangle: it fits in the
\* container, keeps the image's aspect ratio, spans the container on at least
\* one axis and is centred; container 300x400 with ratio 1.5 gives width 300,
\* height 200, offsetX 0, offsetY 100.
C3_CentredContainFit ==
    Rendered =>
        /\ RLe(imageLayout.width, containerWidth)
        /\ RLe(imageLayout.height, containerHeight)
        /\ imageLayout.width = RMul(imageLayout.height, imageAspectRatio)
        /\ imageLayout.width = containerWidth \/ imageLayout.height = containerHeight
        /\ RAdd(RMul(Num(2), imageLayout.x), imageLayout.width) = containerWidth
        /\ RAdd(RMul(Num(2), imageLayout.y), imageLayout.height) = containerHeight
        /\ (containerWidth = Num(300) /\ containerHeight = Num(400)
                /\ imageAspectRatio = Rat(3, 2)) =>
               imageLayout = [x |-> Num(0), y |-> Num(100),
                              width |-> Num(300), height |-> Num(200)]

\* C3 witness: the 300x400 container with a 1.5 image, letterboxed by 100
C3_Witness ==
    /\ Rendered
    /\ containerWidth = Num(300) /\ containerHeight = Num(400)
    /\ imageAspectRatio = Rat(3, 2)
    /\ imageLayout.y = Num(100)


(***************************************************************************)
(* SegmentOverlay: scalePathToImage.                                       *)
(*                                                                         *)
(* The path string is modelled as the tokens the two regular expressions   *)
(* see: a command letter of [MLHVCSQTAZmlhvcsqtaz], a number, or any other *)
(* letter (which neither expression matches).                              *)
(***************************************************************************)
Cmd(c) == [t |-> "cmd", c |-> c, v |-> Num(0)]

\* a number token, given in thousandths
N(k) == [t |-> "num", c |-> "", v |-> Rat(k, 1000)]

Other(c) == [t |-> "other", c |-> c, v |-> Num(0)]

\* args[i + k] of a JavaScript array: undefined past the end
Undefined == <<0, -1>>

At(args, i) == IF i <= Len(args) THEN args[i] ELSE Undefined

\* the number an arithmetic operator makes of its operand
ToNumber(v) == IF v = Undefined THEN NaN ELSE v

\* command.toUpperCase()
toUpperCase(c) ==
    CASE c = "m" -> "M" [] c = "l" -> "L" [] c = "h" -> "H" [] c = "v" -> "V"
      [] c = "c" -> "C" [] c = "s" -> "S" [] c = "q" -> "Q" [] c = "t" -> "T"
      [] c = "a" -> "A" [] c = "z" -> "Z" [] OTHER -> c

\* numbers = argsString.match(/-?[\d.]+(?:e[-+]?\d+)?/gi), parsed: the numbers
\* from token i up to the next command letter
RECURSIVE ArgsFrom(_, _)
ArgsFrom(tokens, i) ==
    IF i > Len(tokens) \/ tokens[i].t = "cmd" THEN <<>>
    ELSE (IF tokens[i].t = "num" THEN <<tokens[i].v>> ELSE <<>>) \o ArgsFrom(tokens, i + 1)

\* the matches of commandRegex from token i on: a command letter and what
\* follows it up to the next command letter
RECURSIVE Matches(_, _)
Matches(tokens, i) ==
    IF i > Len(tokens) THEN <<>>
    ELSE IF tokens[i].t = "cmd"
         THEN <<[command |-> tokens[i].c, args |-> ArgsFrom(tokens, i + 1)]>>
                  \o Matches(tokens, i + 1)
         ELSE Matches(tokens, i + 1)

\* args[i] * layout.width + layout.x
ScaleX(v, layout) == RAdd(RMul(ToNumber(v), layout.width), layout.x)

\* args[i] * layout.height + layout.y
ScaleY(v, layout) == RAdd(RMul(ToNumber(v), layout.height), layout.y)

\* case 'M', 'L', 'T'
RECURSIVE ScaleMLT(_, _, _)
ScaleMLT(args, i, layout) ==
    IF i > Len(args) THEN <<>>
    ELSE <<ScaleX(At(args, i), layout), ScaleY(At(args, i + 1), layout)>>
             \o ScaleMLT(args, i + 2, layout)

\* case 'H'
RECURSIVE ScaleH(_, _, _)
ScaleH(args, i, layout) ==
    IF i > Len(args) THEN <<>>
    ELSE <<ScaleX(At(args, i), layout)>> \o ScaleH(args, i + 1, layout)

\* case 'V'
RECURSIVE ScaleV(_, _, _)
ScaleV(args, i, layout) ==
    IF i > Len(args) THEN <<>>
    ELSE <<ScaleY(At(args, i), layout)>> \o ScaleV(args, i + 1, layout)

\* case 'C'
RECURSIVE ScaleC(_, _, _)
ScaleC(args, i, layout) ==
    IF i > Len(args) THEN <<>>
    ELSE <<ScaleX(At(args, i), layout), ScaleY(At(args, i + 1), layout),
           ScaleX(At(args, i + 2), layout), ScaleY(At(args, i + 3), layout),
           ScaleX(At(args, i + 4), layout), ScaleY(At(args, i + 5), layout)>>
             \o ScaleC(args, i + 6, layout)

\* case 'S', 'Q'
RECURSIVE ScaleSQ(_, _, _)
ScaleSQ(args, i, layout) ==
    IF i > Len(args) THEN <<>>
    ELSE <<ScaleX(At(args, i), layout), ScaleY(At(args, i + 1), layout),
           ScaleX(At(args, i + 2), layout), ScaleY(At(args, i + 3), layout)>>
             \o ScaleSQ(args, i + 4, layout)

\* mutant: the radii of an arc get the offset like a coordinate
RECURSIVE ScaleA_offsetRadii(_, _, _)
ScaleA_offsetRadii(args, i, layout) ==
    IF i > Len(args) THEN <<>>
    ELSE <<ScaleX(At(args, i), layout), ScaleY(At(args, i + 1), layout),
           At(args, i + 2), At(args, i + 3), At(args, i + 4),
           ScaleX(At(args, i + 5), layout), ScaleY(At(args, i + 6), layout)>>
             \o ScaleA_offsetRadii(args, i + 7, layout)

\* case 'A'
RECURSIVE ScaleA(_, _, _)
ScaleA(args, i, layout) ==
    IF i > Len(args) THEN <<>>
    ELSE <<RMul(ToNumber(At(args, i)), layout.width),
           RMul(ToNumber(At(args, i + 1)), layout.height),
           At(args, i + 2), At(args, i + 3), At(args, i + 4),
           ScaleX(At(args, i + 5), layout), ScaleY(At(args, i + 6), layout)>>
             \o ScaleA(args, i + 7, layout)

\* the switch over command.toUpperCase(): scaledArgs of one command
ScaledArgs(command, args, layout) ==
    LET u == toUpperCase(command)
    IN  CASE u \in {"M", "L", "T"} -> ScaleMLT(args, 1, layout)
          [] u = "H" -> ScaleH(args, 1, layout)
          [] u = "V" -> ScaleV(args, 1, layout)
          [] u = "C" -> ScaleC(args, 1, layout)
          [] u \in {"S", "Q"} -> ScaleSQ(args, 1, layout)
          [] u = "A" -> ScaleA(args, 1, layout)
          [] u = "Z" -> <<>>
          [] OTHER -> args

SwitchCases == {"M", "L", "T", "H", "V", "C", "S", "Q", "A", "Z"}

\* mutant: toFixed(1) in place of toFixed(2)
Hundredths_oneDecimal(v) ==
    LET p == Abs(v[1])
        q == v[2]
    IN  Sgn(v[1]) * 10 * ((20 * p + q) \div (2 * q))

\* the integer n with n / 100 nearest to a finite v, ties away from zero
Hundredths(v) ==
    LET p == Abs(v[1])
        q == v[2]
    IN  Sgn(v[1]) * ((200 * p + q) \div (2 * q))

\* the value that n.toFixed(2) denotes
ToFixed2(v) == IF IsFinite(v) THEN Rat(Hundredths(v), 100) ELSE v

\* the text of n.toFixed(2)
ToFixed2Text(v) ==
    IF IsNaN(v) THEN "NaN"
    ELSE IF ~IsFinite(v) THEN (IF v[1] < 0 THEN "-Infinity" ELSE "Infinity")
    ELSE LET h == Abs(Hundredths(v))
             frac == h % 100
         IN  (IF v[1] < 0 THEN "-" ELSE "") \o ToString(h \div 100) \o "."
                 \o (IF frac < 10 THEN "0" ELSE "") \o ToString(frac)

RECURSIVE JoinFixed(_, _)
JoinFixed(values, i) ==
    IF i > Len(values) THEN ""
    ELSE ToFixed2Text(values[i]) \o (IF i < Len(values) THEN " " ELSE "")
             \o JoinFixed(values, i + 1)

\* one pass of the while loop: what it appends to result.
\*   bare:   result += command                      (no numbers)
\*   raw:    result += command + ' ' + argsString + ' '   (default case)
\*   scaled: result += command + ' ' + scaledArgs.map(toFixed(2)).join(' ') + ' '
Emit(m, layout) ==
    IF Len(m.args) = 0
    THEN [kind |-> "bare", command |-> m.command, out |-> <<>>]
    ELSE IF toUpperCase(m.command) \notin SwitchCases
    THEN [kind |-> "raw", command |-> m.command, out |-> m.args]
    ELSE LET scaled == ScaledArgs(m.command, m.args, layout)
         IN  [kind |-> "scaled", command |-> m.command,
              out |-> [j \in 1..Len(scaled) |->
                          IF scaled[j] = Undefined THEN Undefined ELSE ToFixed2(scaled[j])]]

RECURSIVE resultText(_, _)
resultText(items, k) ==
    IF k > Len(items) THEN ""
    ELSE (IF items[k].kind = "bare" THEN items[k].command
          ELSE items[k].command \o " " \o JoinFixed(items[k].out, 1) \o " ")
             \o resultText(items, k + 1)

\* result.trim(): the text ends with at most one blank, after a command with numbers
trim(items) ==
    LET text == resultText(items, 1)
    IN  IF Len(items) > 0 /\ items[Len(items)].kind # "bare"
        THEN resultText(SubSeq(items, 1, Len(items) - 1), 1)
                 \o items[Len(items)].command
                 \o (IF Len(items[Len(items)].out) = 0 THEN ""
                     ELSE " " \o JoinFixed(items[Len(items)].out, 1))
        ELSE text

\* scalePathToImage(path, layout): the string it returns, or the TypeError of
\* undefined.toFixed when an arc group lacks its rotation or flags
scalePathToImage(path, layout) ==
    LET ms == Matches(path, 1)
        items == [k \in 1..Len(ms) |-> Emit(ms[k], layout)]
    IN  IF \E k \in 1..Len(items) : \E j \in 1..Len(items[k].out) :
               items[k].out[j] = Undefined
        THEN [threw |-> TRUE, items |-> <<>>, d |-> ""]
        ELSE [threw |-> FALSE, items |-> items, d |-> trim(items)]

\* a returned path string read again as tokens ("NaN" reads as the letter N, the
\* command a and the letter N)
RECURSIVE NumberTokens(_, _)
NumberTokens(values, j) ==
    IF j > Len(values) THEN <<>>
    ELSE (IF IsNaN(values[j]) THEN <<Other("N"), Cmd("a"), Other("N")>>
          ELSE <<[t |-> "num", c |-> "", v |-> values[j]]>>)
             \o NumberTokens(values, j + 1)

RECURSIVE Tokens(_, _)
Tokens(items, k) ==
    IF k > Len(items) THEN <<>>
    ELSE <<Cmd(items[k].command)>> \o NumberTokens(items[k].out, 1) \o Tokens(items, k + 1)


(***************************************************************************)
(* Inputs of the path model.                                               *)
(***************************************************************************)
\* a path is made of at most MaxFragments fragments
MaxFragments == 2

ExamplePrefix == <<Cmd("M"), N(100), N(200), Cmd("L"), N(500), N(600)>>

\* fragments whose commands are supported and carry complete operand groups
CompleteFragments ==
    { ExamplePrefix,
      <<Cmd("Z")>>,
      <<Cmd("M"), N(100), N(200), N(500), N(600)>>,
      <<Cmd("T"), N(125), N(333)>>,
      <<Cmd("H"), N(250), N(1000)>>,
      <<Cmd("V"), N(750)>>,
      <<Cmd("C"), N(100), N(200), N(300), N(400), N(500), N(600)>>,
      <<Cmd("S"), N(100), N(900), N(500), N(600)>>,
      <<Cmd("Q"), N(0), N(1000), N(123), N(456)>>,
      <<Cmd("A"), N(250), N(500), N(30000), N(0), N(1000), N(500), N(600)>>,
      <<Cmd("A"), N(100), N(200), N(12345), N(1000), N(0), N(1000), N(1000),
                  N(300), N(400), N(0), N(0), N(1000), N(0), N(500)>>,
      <<Cmd("l"), N(500), N(600), Cmd("z")>> }

\* fragments with an operand count that is no multiple of the group size
IncompleteFragments ==
    { <<Cmd("M"), N(100)>>,
      <<Cmd("L"), N(100), N(200), N(500)>>,
      <<Cmd("C"), N(100), N(200), N(300), N(400), N(500)>>,
      <<Cmd("A"), N(250), N(500), N(30000), N(0), N(1000), N(500)>>,
      <<Cmd("A"), N(250), N(500)>>,
      <<Cmd("Z"), N(100), N(200)>> }

\* fragments with a letter that is no path command of the scaler
UnknownFragments ==
    { <<Other("X"), N(300), N(400)>>,
      <<Other("B")>> }

Fragments == CompleteFragments \cup IncompleteFragments \cup UnknownFragments

RECURSIVE Concat(_, _)
Concat(frags, i) == IF i > Len(frags) THEN <<>> ELSE frags[i] \o Concat(frags, i + 1)

Paths == {Concat(fs, 1) : fs \in SeqsUpTo(Fragments, MaxFragments)}

Layout(x, y, w, h) == [x |-> x, y |-> y, width |-> w, height |-> h]

ExampleLayout == Layout(Num(10), Num(10), Num(200), Num(200))

PathLayouts ==
    { ExampleLayout,
      Layout(Num(0), Num(100), Num(300), Num(200)),
      Layout(Num(0), Num(0), Num(1), Num(1)),
      Layout(Num(0), Num(0), Num(3), Num(3)),
      Layout(Num(0), Num(0), Num(200), Num(200)),
      Layout(Num(0), Num(0), Rat(1, 2), Rat(1, 2)) }

InitPath ==
    /\ svgPath \in Paths
    /\ pathLayout \in PathLayouts
    /\ scaledPath = NoResult
    /\ roundTrip = NoResult
    /\ pathPc = "input"
    /\ IdleOverlay
    /\ IdleCutout
    /\ IdleApi
    /\ IdleMarkers
    /\ IdleScreen
    /\ IdleKeys
    /\ IdleEditor
    /\ IdleCamera

\* scalePathToImage(svgPath, layout)
ScalePath ==
    /\ pathPc = "input"
    /\ scaledPath' = scalePathToImage(svgPath, pathLayout)
    /\ pathPc' = "scaled"
    /\ UNCHANGED <<svgPath, pathLayout, roundTrip>>
    /\ UNCHANGED outsidePath

\* the transform is (s, s, 0, 0) with s > 0
UniformLayout(layout) ==
    /\ layout.x = Num(0)
    /\ layout.y = Num(0)
    /\ layout.width = layout.height
    /\ RGt(layout.width, Num(0))

\* the returned path scaled again, with (1/s, 1/s, 0, 0)
ScaleBack ==
    /\ pathPc = "scaled"
    /\ ~scaledPath.threw
    /\ UniformLayout(pathLayout)
    /\ LET inverse == RDiv(Num(1), pathLayout.width)
       IN  roundTrip' = scalePathToImage(Tokens(scaledPath.items, 1),
                                         Layout(Num(0), Num(0), inverse, inverse))
    /\ pathPc' = "back"
    /\ UNCHANGED <<svgPath, pathLayout, scaledPath>>
    /\ UNCHANGED outsidePath

NextPath == ScalePath \/ ScaleBack

SpecPath == InitPath /\ [][NextPath]_vars


(***************************************************************************)
(* Claims about scalePathToImage (SpecPath).                               *)
(***************************************************************************)
\* the commands of the input as the path grammar reads them: every letter,
\* supported or not, starts a command that owns the numbers up to the next letter
RECURSIVE OperandsFrom(_, _)
OperandsFrom(tokens, i) ==
    IF i > Len(tokens) \/ tokens[i].t # "num" THEN <<>>
    ELSE <<tokens[i].v>> \o OperandsFrom(tokens, i + 1)

RECURSIVE InputCommands(_, _)
InputCommands(tokens, i) ==
    IF i > Len(tokens) THEN <<>>
    ELSE IF tokens[i].t = "num" THEN InputCommands(tokens, i + 1)
    ELSE <<[letter |-> tokens[i].c, known |-> tokens[i].t = "cmd",
            args |-> OperandsFrom(tokens, i + 1)]>> \o InputCommands(tokens, i + 1)

GroupSize(u) ==
    CASE u \in {"M", "L", "T"} -> 2
      [] u \in {"H", "V"} -> 1
      [] u = "C" -> 6
      [] u \in {"S", "Q"} -> 4
      [] u = "A" -> 7
      [] OTHER -> 0

\* what the j-th operand of a command is: an x, a y, an arc radius, or an
\* operand that is no length ("keep": rotation and flags)
Role(u, j) ==
    LET p == (j - 1) % GroupSize(u)
    IN  CASE u = "H" -> "x"
          [] u = "V" -> "y"
          [] u = "A" -> (CASE p = 0 -> "rx" [] p = 1 -> "ry" [] p = 5 -> "x"
                           [] p = 6 -> "y" [] OTHER -> "keep")
          [] OTHER -> IF p % 2 = 0 THEN "x" ELSE "y"

Expected(v, role, layout) ==
    CASE role = "x" -> RAdd(RMul(v, layout.width), layout.x)
      [] role = "y" -> RAdd(RMul(v, layout.height), layout.y)
      [] role = "rx" -> RMul(v, layout.width)
      [] role = "ry" -> RMul(v, layout.height)
      [] OTHER -> v

CompleteCommand(c) ==
    /\ c.known
    /\ IF toUpperCase(c.letter) = "Z" THEN Len(c.args) = 0
       ELSE Len(c.args) % GroupSize(toUpperCase(c.letter)) = 0

AllCommands(tokens, P(_)) ==
    LET cs == InputCommands(tokens, 1) IN \A k \in 1..Len(cs) : P(cs[k])

IsKnown(c) == c.known

KnownOrComplete(c) == ~c.known \/ CompleteCommand(c)

\* only supported commands, each with complete operand groups
WellFormed(tokens) == AllCommands(tokens, CompleteCommand)

TwoDecimals(v) == IsFinite(v) /\ 100 % v[2] = 0

Near(a, b, tol) == RLe(RSub(a, b), tol) /\ RLe(RSub(b, a), tol)

HalfHundredth == Rat(1, 200)

PathScaled == pathPc \in {"scaled", "back"}

ExamplePath == ExamplePrefix \o <<Cmd("Z")>>

\* the output has the input's commands, each with as many operands
SameShape(result, tokens) ==
    LET cs == InputCommands(tokens, 1)
    IN  /\ ~result.threw
        /\ Len(result.items) = Len(cs)
        /\ \A k \in 1..Len(cs) :
               /\ result.items[k].command = cs[k].letter
               /\ Len(result.items[k].out) = Len(cs[k].args)

\* C4: for a path of supported commands with complete operand groups every x
\* operand comes out as x * scaleX + offsetX and every y operand as
\* y * scaleY + offsetY, arc radii as rx * scaleX and ry * scaleY without offset,
\* each written with two decimals; "M 0.1 0.2 L 0.5 0.6 Z" with scale (200,200)
\* and offset (10,10) gives exactly "M 30.00 50.00 L 110.00 130.00 Z".
C4_OperandsScaledThenOffset ==
    (PathScaled /\ WellFormed(svgPath)) =>
        LET cs == InputCommands(svgPath, 1)
        IN  /\ SameShape(scaledPath, svgPath)
            /\ \A k \in 1..Len(cs) : \A j \in 1..Len(cs[k].args) :
                   LET role == Role(toUpperCase(cs[k].letter), j)
                   IN  role # "keep" =>
                           /\ TwoDecimals(scaledPath.items[k].out[j])
                           /\ Near(scaledPath.items[k].out[j],
                                   Expected(cs[k].args[j], role, pathLayout),
                                   HalfHundredth)
            /\ (svgPath = ExamplePath /\ pathLayout = ExampleLayout) =>
                   scaledPath.d = "M 30.00 50.00 L 110.00 130.00 Z"

\* C4 witness: the example path scaled by (200,200) and offset by (10,10)
C4_Witness ==
    /\ pathPc = "scaled"
    /\ svgPath = ExamplePath
    /\ pathLayout = ExampleLayout
    /\ scaledPath.d = "M 30.00 50.00 L 110.00 130.00 Z"

\* C5: the 3rd, 4th and 5th operands of every arc group (rotation,
\* large-arc-flag, sweep-flag) appear in the output identical to the input
\* operands, whatever the transform.
C5_ArcOperandsUnaltered ==
    (PathScaled /\ WellFormed(svgPath)) =>
        LET cs == InputCommands(svgPath, 1)
        IN  /\ SameShape(scaledPath, svgPath)
            /\ \A k \in 1..Len(cs) : \A j \in 1..Len(cs[k].args) :
                   (toUpperCase(cs[k].letter) = "A"
                        /\ Role("A", j) = "keep") =>
                       scaledPath.items[k].out[j] = cs[k].args[j]

\* C6: the output has the same command letters in the same order as the
\* input, every command carries as many operands as in the input, and every
\* operand is a number, also when the operand count is no multiple of the
\* command's group size.
C6_CommandsAndOperandCountsKept ==
    (PathScaled /\ AllCommands(svgPath, IsKnown)) =>
        /\ SameShape(scaledPath, svgPath)
        /\ \A k \in 1..Len(scaledPath.items) :
               \A j \in 1..Len(scaledPath.items[k].out) :
                   IsFinite(scaledPath.items[k].out[j])

\* C7: a command letter outside M L H V C S Q T A Z does not make the scaler
\* fail and is emitted with its operands unchanged at its position, while the
\* supported commands around it are still scaled.
C7_UnknownCommandPassedThrough ==
    (PathScaled /\ ~AllCommands(svgPath, IsKnown)
                /\ AllCommands(svgPath, KnownOrComplete)) =>
        LET cs == InputCommands(svgPath, 1)
        IN  /\ SameShape(scaledPath, svgPath)
            /\ \A k \in 1..Len(cs) : \A j \in 1..Len(cs[k].args) :
                   IF cs[k].known
                   THEN Near(scaledPath.items[k].out[j],
                             Expected(cs[k].args[j],
                                      Role(toUpperCase(cs[k].letter), j), pathLayout),
                             HalfHundredth)
                   ELSE scaledPath.items[k].out[j] = cs[k].args[j]

\* the operands of a well-formed path that are lengths or positions
RoundTripWithin(tol) ==
    (pathPc = "back" /\ WellFormed(svgPath)) =>
        LET cs == InputCommands(svgPath, 1)
        IN  /\ SameShape(roundTrip, svgPath)
            /\ \A k \in 1..Len(cs) : \A j \in 1..Len(cs[k].args) :
                   Role(toUpperCase(cs[k].letter), j) # "keep" =>
                       Near(roundTrip.items[k].out[j], cs[k].args[j], tol)

\* C9 as stated: scaling with (s, s, 0, 0) and then with (1/s, 1/s, 0, 0)
\* gives back every coordinate to within 1e-3.
C9_RoundTripWithinThousandth == RoundTripWithin(Rat(1, 1000))

\* C9 amended: the round trip gives back every coordinate to within
\* 0.005 + 0.005/s, each pass rounding what it writes to two decimals.
C9_RoundTripWithinRounding ==
    RoundTripWithin(RAdd(HalfHundredth, RDiv(HalfHundredth, pathLayout.width)))

\* C9 witness: T 0.125 0.333 through s = 1 and back comes out as 0.13 0.33
C9_Witness ==
    /\ pathPc = "back"
    /\ svgPath = <<Cmd("T"), N(125), N(333)>>
    /\ pathLayout.width = Num(1)
    /\ roundTrip.items[1].out = <<Rat(13, 100), Rat(33, 100)>>


(***************************************************************************)
(* SegmentOverlay: the path of a segmentation result drawn over the image. *)
(***************************************************************************)
\* boxX, boxY, boxW, boxH: the pixel rectangle of the bounding box on screen
SegmentBox(bbox, layout) ==
    [x |-> RAdd(layout.x, RMul(bbox.x_min, layout.width)),
     y |-> RAdd(layout.y, RMul(bbox.y_min, layout.height)),
     width |-> RMul(RSub(bbox.x_max, bbox.x_min), layout.width),
     height |-> RMul(RSub(bbox.y_max, bbox.y_min), layout.height)]

\* the d attribute of the <Path> (nothing is drawn for an empty path string)
SegmentOverlay(path, bbox, layout) ==
    IF Len(path) = 0 THEN NoResult
    ELSE scalePathToImage(path, SegmentBox(bbox, layout))

(***************************************************************************)
(* analysis.tsx: the size of the image view and the layout of the image in *)
(* it, once Image.getSize has reported the image's size.                   *)
(***************************************************************************)
\* IMAGE_WIDTH = width - 40
IMAGE_WIDTH(window) == Num(window - 40)

\* IMAGE_HEIGHT = IMAGE_WIDTH * 0.75
IMAGE_HEIGHT(window) == RMul(IMAGE_WIDTH(window), Rat(3, 4))

RMin(a, b) == IF RLt(b, a) THEN b ELSE a

\* the Image.getSize callback followed by getRenderedImageLayout
DisplayedLayout(window, w, h) ==
    LET aspectRatio == RDiv(Num(w), Num(h))
        displayWidth == IMAGE_WIDTH(window)
        displayHeight == RDiv(displayWidth, aspectRatio)
    IN  getRenderedImageLayout(displayWidth, RMin(displayHeight, IMAGE_HEIGHT(window)),
                               aspectRatio)

(***************************************************************************)
(* Skia, as the ImageProcessor service uses it.  An SkPath is the list of  *)
(* its commands with their points; the paths considered use the absolute   *)
(* and relative commands M L C S Q T Z, whose operands are (x, y) pairs.   *)
(***************************************************************************)
OperandsPerGroup(u) ==
    CASE u \in {"M", "L", "T"} -> 2
      [] u = "C" -> 6
      [] u \in {"S", "Q"} -> 4
      [] OTHER -> 0

origin == [x |-> Num(0), y |-> Num(0)]

\* the points of operand group j.. of a command, relative commands counted
\* from the current point
GroupPoints(args, j, g, base) ==
    [i \in 1..(g \div 2) |->
        [x |-> RAdd(base.x, args[j + 2 * i - 2]), y |-> RAdd(base.y, args[j + 2 * i - 1])]]

\* how a path is read by an SVG consumer (Skia's parser, the <Path> element):
\* the commands with their points in absolute coordinates.  A lowercase
\* command is relative to the current point, an uppercase one is absolute; the
\* pairs after the first of a moveto are linetos; closepath returns to the
\* start of the subpath.
RECURSIVE AbsoluteCommands(_, _, _, _, _)
AbsoluteCommands(ms, k, j, cur, start) ==
    IF k > Len(ms) THEN <<>>
    ELSE LET m == ms[k]
             u == toUpperCase(m.command)
             g == OperandsPerGroup(u)
         IN  IF u = "Z"
             THEN <<[verb |-> "Z", pts |-> <<>>]>> \o AbsoluteCommands(ms, k + 1, 1, start, start)
             ELSE IF j > Len(m.args) THEN AbsoluteCommands(ms, k + 1, 1, cur, start)
             ELSE LET pts == GroupPoints(m.args, j, g, IF m.command = u THEN origin ELSE cur)
                      verb == IF u = "M" /\ j > 1 THEN "L" ELSE u
                  IN  <<[verb |-> verb, pts |-> pts]>>
                          \o AbsoluteCommands(ms, k, j + g, pts[g \div 2],
                                              IF verb = "M" THEN pts[g \div 2] ELSE start)

\* a string that is a path: it starts with a moveto, has no letter that is no
\* command, and every command has whole operand groups
IsSVGPath(path) ==
    LET ms == Matches(path, 1)
    IN  /\ \A i \in 1..Len(path) : path[i].t # "other"
        /\ Len(path) > 0 => path[1].t = "cmd" /\ toUpperCase(path[1].c) = "M"
        /\ \A k \in 1..Len(ms) :
               IF toUpperCase(ms[k].command) = "Z" THEN Len(ms[k].args) = 0
               ELSE /\ OperandsPerGroup(toUpperCase(ms[k].command)) > 0
                    /\ Len(ms[k].args) > 0
                    /\ Len(ms[k].args) % OperandsPerGroup(toUpperCase(ms[k].command)) = 0

\* Skia.Path.MakeFromSVGString: null for a string that is no path; the empty
\* string parses to the empty path
MakeFromSVGString(path) ==
    IF IsSVGPath(path)
    THEN [ok |-> TRUE, cmds |-> AbsoluteCommands(Matches(path, 1), 1, 1, origin, origin)]
    ELSE [ok |-> FALSE, cmds |-> <<>>]

\* path.transform(matrix) for the matrix that scales by (sx, sy) and then
\* translates by (tx, ty)
Transform(cmds, sx, sy, tx, ty) ==
    [k \in 1..Len(cmds) |->
        [verb |-> cmds[k].verb,
         pts |-> [j \in 1..Len(cmds[k].pts) |->
                     [x |-> RAdd(RMul(cmds[k].pts[j].x, sx), tx),
                      y |-> RAdd(RMul(cmds[k].pts[j].y, sy), ty)]]]]

\* matrix.scale(width, height)
scalePathToPixels(cmds, width, height) == Transform(cmds, width, height, Num(0), Num(0))

\* mutant: the translation is applied before the scale
scalePathToBbox_translateFirst(cmds, offsetX, offsetY, width, height) ==
    Transform(cmds, width, height, RMul(offsetX, width), RMul(offsetY, height))

\* matrix.scale(width, height); matrix.postTranslate(offsetX, offsetY)
scalePathToBbox(cmds, offsetX, offsetY, width, height) ==
    Transform(cmds, width, height, offsetX, offsetY)

\* Skia.Surface.Make(width, height): null when the size is not positive or
\* the allocation fails
SurfaceMake(width, height, fault) ==
    [ok |-> RGt(width, Num(0)) /\ RGt(height, Num(0)) /\ fault # "surface",
     width |-> width, height |-> height]

(***************************************************************************)
(* ImageProcessor: the three cutout operations.  Each returns what the     *)
(* synchronous part between the load and the write leaves: the error it    *)
(* throws, or the clip path, the snapshot's size and where the image was   *)
(* drawn.  fault names the Skia call that returns null, if any.            *)
(***************************************************************************)
Thrown(message) ==
    [error |-> message, clip |-> <<>>, raster |-> <<Num(0), Num(0)>>,
     drawAt |-> <<Num(0), Num(0)>>]

\* clipPath, drawImage, makeImageSnapshot, encodeToBase64
Snapshot(surface, clip, dx, dy, fault) ==
    IF fault = "snapshot" THEN Thrown("Failed to create image snapshot")
    ELSE IF fault = "encode" THEN Thrown("Failed to encode image to PNG")
    ELSE [error |-> "", clip |-> clip, raster |-> <<surface.width, surface.height>>,
          drawAt |-> <<dx, dy>>]

\* boxX, boxY, boxW, boxH in source pixels
BoxPixels(bbox, width, height) ==
    [boxX |-> RMul(bbox.x_min, width),
     boxY |-> RMul(bbox.y_min, height),
     boxW |-> RMul(RSub(bbox.x_max, bbox.x_min), width),
     boxH |-> RMul(RSub(bbox.y_max, bbox.y_min), height)]

createCutout(width, height, path, bbox, fault) ==
    LET originalPath == MakeFromSVGString(path)
    IN  IF ~originalPath.ok THEN Thrown("Failed to parse SVG path string")
        ELSE LET scaledSkPath == scalePathToPixels(originalPath.cmds, width, height)
                 surface == SurfaceMake(width, height, fault)
             IN  IF ~surface.ok THEN Thrown("Failed to create Skia surface")
                 ELSE Snapshot(surface, scaledSkPath, Num(0), Num(0), fault)

createCutoutWithBbox(width, height, path, bbox, fault) ==
    LET b == BoxPixels(bbox, width, height)
        originalPath == MakeFromSVGString(path)
    IN  IF ~originalPath.ok THEN Thrown("Failed to parse SVG path string")
        ELSE LET scaledSkPath ==
                     scalePathToBbox(originalPath.cmds, b.boxX, b.boxY, b.boxW, b.boxH)
                 surface == SurfaceMake(width, height, fault)
             IN  IF ~surface.ok THEN Thrown("Failed to create Skia surface")
                 ELSE Snapshot(surface, scaledSkPath, Num(0), Num(0), fault)

\* mutant: the cropped surface is rounded down
CroppedSurfaceSize_floor(b) ==
    [width |-> Num(b.boxW[1] \div b.boxW[2]), height |-> Num(b.boxH[1] \div b.boxH[2])]

\* Math.ceil(boxW), Math.ceil(boxH)
CroppedSurfaceSize(b) == [width |-> Num(Ceil(b.boxW)), height |-> Num(Ceil(b.boxH))]

\* mutant: the clip path of the cropped cutout is scaled by the image, not by
\* the box
createCroppedCutout_clipByImage(width, height, path, bbox, fault) ==
    LET b == BoxPixels(bbox, width, height)
        size == CroppedSurfaceSize(b)
        surface == SurfaceMake(size.width, size.height, fault)
    IN  IF ~surface.ok THEN Thrown("Failed to create Skia surface")
        ELSE LET originalPath == MakeFromSVGString(path)
             IN  IF ~originalPath.ok THEN Thrown("Failed to parse SVG path string")
                 ELSE LET scaledSkPath ==
                              scalePathToPixels(originalPath.cmds, width, height)
                      IN  Snapshot(surface, scaledSkPath, RNeg(b.boxX), RNeg(b.boxY), fault)

createCroppedCutout(width, height, path, bbox, fault) ==
    LET b == BoxPixels(bbox, width, height)
        size == CroppedSurfaceSize(b)
        surface == SurfaceMake(size.width, size.height, fault)
    IN  IF ~surface.ok THEN Thrown("Failed to create Skia surface")
        ELSE LET originalPath == MakeFromSVGString(path)
             IN  IF ~originalPath.ok THEN Thrown("Failed to parse SVG path string")
                 ELSE LET scaledSkPath ==
                              scalePathToPixels(originalPath.cmds, b.boxW, b.boxH)
                      IN  Snapshot(surface, scaledSkPath, RNeg(b.boxX), RNeg(b.boxY), fault)

Operations == {"createCutout", "createCutoutWithBbox", "createCroppedCutout"}

\* what the operation does once loadImageFromUri has returned the image
AfterLoad(op, width, height, path, bbox, fault) ==
    CASE op = "createCutout" -> createCutout(width, height, path, bbox, fault)
      [] op = "createCutoutWithBbox" -> createCutoutWithBbox(width, height, path, bbox, fault)
      [] OTHER -> createCroppedCutout(width, height, path, bbox, fault)


(***************************************************************************)
(* What the snapshot holds when the clip path is an axis-parallel          *)
(* rectangle: canvas.clipPath(scaledPath, ClipOp.Intersect, true) lets the *)
(* anti-aliased clip cover each pixel by the share of the pixel inside the *)
(* rectangle, and canvas.drawImage paints the image, taken to be opaque,   *)
(* from its origin on; the rest of the cleared canvas stays transparent.   *)
(***************************************************************************)
RMax(a, b) == IF RLt(a, b) THEN b ELSE a

Least(S) == CHOOSE a \in S : \A b \in S : RLe(a, b)

Greatest(S) == CHOOSE a \in S : \A b \in S : RLe(b, a)

ClipPoints(clip) ==
    UNION {{clip[k].pts[i] : i \in 1..Len(clip[k].pts)} : k \in 1..Len(clip)}

\* the rectangle around the points of a clip path
ClipBounds(clip) ==
    LET xs == {p.x : p \in ClipPoints(clip)}
        ys == {p.y : p \in ClipPoints(clip)}
    IN  [x0 |-> Least(xs), x1 |-> Greatest(xs), y0 |-> Least(ys), y1 |-> Greatest(ys)]

\* the clip path is a closed polygon through the four corners of its bounds
IsRectangle(clip) ==
    /\ Len(clip) = 5
    /\ [k \in 1..5 |-> clip[k].verb] = <<"M", "L", "L", "L", "Z">>
    /\ LET b == ClipBounds(clip)
           corner(k) == clip[k].pts[1]
       IN  /\ RLt(b.x0, b.x1) /\ RLt(b.y0, b.y1)
           /\ \A k \in 1..4 : corner(k).x \in {b.x0, b.x1} /\ corner(k).y \in {b.y0, b.y1}
           /\ \A k \in 1..3 :
                  (corner(k).x = corner(k + 1).x) # (corner(k).y = corner(k + 1).y)
           /\ (corner(4).x = corner(1).x) # (corner(4).y = corner(1).y)

\* the length of the part of [a0, a1] inside [b0, b1]
Overlap(a0, a1, b0, b1) ==
    RMax(Num(0), RSub(RMin(a1, b1), RMax(a0, b0)))

\* the columns, as an interval, that lie inside the clip and under the image
SpanX(r) ==
    LET b == ClipBounds(req[r].clip)
    IN  <<RMax(b.x0, req[r].drawAt[1]),
          RMin(b.x1, RAdd(req[r].drawAt[1], Num(srcImage.width)))>>

\* the rows, as an interval, that lie inside the clip and under the image
SpanY(r) ==
    LET b == ClipBounds(req[r].clip)
    IN  <<RMax(b.y0, req[r].drawAt[2]),
          RMin(b.y1, RAdd(req[r].drawAt[2], Num(srcImage.height)))>>

\* the share of the pixel column (or row) u that lies in a span
Cover(span, u) == Overlap(Num(u), Num(u + 1), span[1], span[2])

ColumnCover(r, u) == Cover(SpanX(r), u)

RowCover(r, v) == Cover(SpanY(r), v)

\* the alpha of pixel (u, v) of the snapshot, from 0 (transparent) to 1 (opaque)
Opacity(r, u, v) == RMul(ColumnCover(r, u), RowCover(r, v))

\* the pixel columns and rows of the snapshot
Columns(r) == 0..(req[r].raster[1][1] - 1)

Rows(r) == 0..(req[r].raster[2][1] - 1)

(***************************************************************************)
(* Inputs of the cutout model: one source image, one segmentation result   *)
(* (path, bbox) and the window the analysis screen is shown in.            *)
(***************************************************************************)
\* Date.now() takes the values 0..MaxClock
MaxClock == 1

\* the calls of a cutout operation that may overlap
Requests == {1, 2}

\* what can go wrong inside Skia after the image is loaded
Faults == {"none", "surface", "snapshot", "encode"}

Images ==
    {[ok |-> TRUE, width |-> 400, height |-> 400],
     [ok |-> TRUE, width |-> 333, height |-> 250],
     [ok |-> FALSE, width |-> 0, height |-> 0]}

WindowWidths == {400}

\* a box in the corner, a box inside the image, an empty box and an inverted box
Bboxes == {Region(0, 0, 5, 5), Region(1, 2, 5, 6), Region(5, 5, 5, 5), Region(5, 6, 1, 2)}

UnitSquare ==
    <<Cmd("M"), N(0), N(0), Cmd("L"), N(1000), N(0), Cmd("L"), N(1000), N(1000),
      Cmd("L"), N(0), N(1000), Cmd("Z")>>

SegPaths ==
    {UnitSquare,
     <<Cmd("M"), N(125), N(250), Cmd("L"), N(875), N(333), Cmd("L"), N(500), N(900),
       Cmd("Z")>>,
     <<Cmd("M"), N(100), N(200), Cmd("C"), N(200), N(100), N(400), N(100), N(500), N(200),
       Cmd("Q"), N(600), N(600), N(300), N(700), Cmd("Z")>>,
     <<Cmd("M"), N(100), N(200), Cmd("l"), N(400), N(0), Cmd("l"), N(0), N(400),
       Cmd("z")>>,
     <<Cmd("M"), N(100)>>,
     <<>>}

NoClip == <<>>

IdleRequest ==
    [op |-> "", pc |-> "idle", error |-> "", clip |-> NoClip,
     raster |-> <<Num(0), Num(0)>>, drawAt |-> <<Num(0), Num(0)>>,
     uri |-> -1, returned |-> -1, reads |-> 0, writes |-> 0]

NoFile == [present |-> FALSE, owner |-> 0, whole |-> FALSE]

InitCutout ==
    /\ srcImage \in Images
    /\ windowWidth \in WindowWidths
    /\ segPath \in SegPaths
    /\ segBbox \in Bboxes
    /\ segLayout = ZeroLayout
    /\ segOverlay = NoResult
    /\ segPc = "idle"
    /\ req = [r \in Requests |-> IdleRequest]
    /\ cache = [t \in 0..MaxClock |-> NoFile]
    /\ now = 0
    /\ IdleOverlay
    /\ IdlePath
    /\ IdleApi
    /\ IdleMarkers
    /\ IdleScreen
    /\ IdleKeys
    /\ IdleEditor
    /\ IdleCamera

\* renderOverlays for a segment result, after Image.getSize has reported the
\* size of the image
RenderSegment ==
    /\ segPc = "idle"
    /\ srcImage.ok
    /\ segLayout' = DisplayedLayout(windowWidth, srcImage.width, srcImage.height)
    /\ segOverlay' = SegmentOverlay(segPath, segBbox, segLayout')
    /\ segPc' = "rendered"
    /\ UNCHANGED <<srcImage, windowWidth, segPath, segBbox, req, cache, now>>
    /\ UNCHANGED outsideCutout

\* a cutout operation is called: it awaits the read of the source
Call(r) ==
    /\ req[r].pc = "idle"
    /\ \E op \in Operations :
           req' = [req EXCEPT ![r] = [@ EXCEPT !.op = op, !.pc = "loading"]]
    /\ UNCHANGED <<varsSegment, cache, now>>
    /\ UNCHANGED outsideCutout

\* loadImageFromUri returns; the operation runs up to the await of the write
\* in savePngToCache, which has named the file after Date.now()
LoadDone(r) ==
    /\ req[r].pc = "loading"
    /\ IF ~srcImage.ok
       THEN req' = [req EXCEPT ![r] = [@ EXCEPT !.pc = "failed", !.reads = @ + 1,
                                          !.error = "Failed to load image from URI"]]
       ELSE \E fault \in Faults :
                LET res == AfterLoad(req[r].op, Num(srcImage.width), Num(srcImage.height),
                                     segPath, segBbox, fault)
                IN  IF res.error # ""
                    THEN req' = [req EXCEPT ![r] = [@ EXCEPT !.pc = "failed",
                                                       !.reads = @ + 1,
                                                       !.error = res.error]]
                    ELSE req' = [req EXCEPT ![r] = [@ EXCEPT !.pc = "writing",
                                                       !.reads = @ + 1,
                                                       !.clip = res.clip,
                                                       !.raster = res.raster,
                                                       !.drawAt = res.drawAt,
                                                       !.uri = now]]
    /\ UNCHANGED <<varsSegment, cache, now>>
    /\ UNCHANGED outsideCutout

\* FileSystem.writeAsStringAsync settles: the file is written and its URI
\* returned, or the write rejects and may leave a partial file behind
WriteDone(r) ==
    /\ req[r].pc = "writing"
    /\ \/ /\ cache' = [cache EXCEPT ![req[r].uri] =
                          [present |-> TRUE, owner |-> r, whole |-> TRUE]]
          /\ req' = [req EXCEPT ![r] = [@ EXCEPT !.pc = "done", !.writes = @ + 1,
                                           !.returned = req[r].uri]]
       \/ /\ \/ cache' = cache
             \/ cache' = [cache EXCEPT ![req[r].uri] =
                             [present |-> TRUE, owner |-> r, whole |-> FALSE]]
          /\ req' = [req EXCEPT ![r] = [@ EXCEPT !.pc = "failed", !.writes = @ + 1,
                                           !.error = "write rejected"]]
    /\ UNCHANGED <<varsSegment, now>>
    /\ UNCHANGED outsideCutout

\* a millisecond passes
Tick ==
    /\ now < MaxClock
    /\ now' = now + 1
    /\ UNCHANGED <<varsSegment, req, cache>>
    /\ UNCHANGED outsideCutout

NextCutout ==
    \/ RenderSegment
    \/ \E r \in Requests : Call(r)
    \/ \E r \in Requests : LoadDone(r)
    \/ \E r \in Requests : WriteDone(r)
    \/ Tick

SpecCutout == InitCutout /\ [][NextCutout]_vars


(***************************************************************************)
(* Claims about the cutout operations and the segment overlay.             *)
(***************************************************************************)
\* the least integer that is not below a, written without Ceil
LeastIntegerAtLeast(a) ==
    CHOOSE n \in -1..(Abs(a[1]) + 1) : RLe(a, Num(n)) /\ RLt(Num(n - 1), a)

SourceW == Num(srcImage.width)

SourceH == Num(srcImage.height)

BboxW == RSub(segBbox.x_max, segBbox.x_min)

BboxH == RSub(segBbox.y_max, segBbox.y_min)

\* C10: every cutout that completes has the dimensions its mode prescribes:
\* createCroppedCutout a raster of ceil(boxW) x ceil(boxH) with
\* boxW = (x_max - x_min) * W and boxH = (y_max - y_min) * H, createCutout and
\* createCutoutWithBbox a raster of exactly the source dimensions (W, H).
C10_CutoutDimensionsFollowMode ==
    \A r \in Requests :
        req[r].pc = "done" =>
            IF req[r].op = "createCroppedCutout"
            THEN req[r].raster = <<Num(LeastIntegerAtLeast(RMul(BboxW, SourceW))),
                                   Num(LeastIntegerAtLeast(RMul(BboxH, SourceH)))>>
            ELSE req[r].raster = <<SourceW, SourceH>>

\* a cropped cutout of a box 166.5 pixels wide has completed next to a
\* full-size cutout of the same 333 x 250 image
C10_Witness ==
    /\ srcImage.width = 333
    /\ segBbox = Region(0, 0, 5, 5)
    /\ segPath = UnitSquare
    /\ \E r \in Requests :
           /\ req[r].pc = "done"
           /\ req[r].op = "createCroppedCutout"
           /\ req[r].raster = <<Num(167), Num(125)>>
    /\ \E r \in Requests :
           /\ req[r].pc = "done"
           /\ req[r].op = "createCutoutWithBbox"
           /\ req[r].raster = <<Num(333), Num(250)>>

\* the points of the segmentation path, in the frame of the bounding box
PathPoints == AbsoluteCommands(Matches(segPath, 1), 1, 1, origin, origin)

\* the points of the path the overlay hands to <Path>, on the screen
DrawnPoints ==
    AbsoluteCommands([k \in 1..Len(segOverlay.items) |->
                         [command |-> segOverlay.items[k].command,
                          args |-> segOverlay.items[k].out]],
                     1, 1, origin, origin)

\* the normalized position of the image that a path point stands for
ImagePosition(p) ==
    [x |-> RAdd(segBbox.x_min, RMul(p.x, BboxW)),
     y |-> RAdd(segBbox.y_min, RMul(p.y, BboxH))]

SamePoints(cmds, Placed(_), tol) ==
    LET points == PathPoints
    IN  /\ Len(cmds) = Len(points)
        /\ \A k \in 1..Len(cmds) :
               /\ Len(cmds[k].pts) = Len(points[k].pts)
               /\ \A i \in 1..Len(cmds[k].pts) :
                      LET placed == Placed(points[k].pts[i])
                      IN  /\ Near(cmds[k].pts[i].x, placed.x, tol)
                          /\ Near(cmds[k].pts[i].y, placed.y, tol)

OnScreen(p) ==
    [x |-> RAdd(segLayout.x, RMul(ImagePosition(p).x, segLayout.width)),
     y |-> RAdd(segLayout.y, RMul(ImagePosition(p).y, segLayout.height))]

InSource(p) ==
    [x |-> RMul(ImagePosition(p).x, SourceW), y |-> RMul(ImagePosition(p).y, SourceH)]

SegmentDrawn == segPc = "rendered" /\ ~segOverlay.threw /\ Len(segPath) > 0

\* C8: for one segmentation result (path, bbox) the overlay and the cutout
\* read the path in the frame of the bounding box, scale before offset: the
\* overlay places a path point (x, y) at
\* (layout.x + (x_min + x*(x_max-x_min))*layout.width,
\*  layout.y + (y_min + y*(y_max-y_min))*layout.height), to the two decimals it
\* prints, and createCutoutWithBbox places it at
\* ((x_min + x*(x_max-x_min))*W, (y_min + y*(y_max-y_min))*H).
C8_OverlayAndCutoutMarkSamePosition ==
    IsSVGPath(segPath) =>
        /\ SegmentDrawn => SamePoints(DrawnPoints, OnScreen, HalfHundredth)
        /\ \A r \in Requests :
               req[r].op = "createCutoutWithBbox" /\ req[r].pc \in {"writing", "done"}
                   => SamePoints(req[r].clip, InSource, Num(0))


BoxX == RMul(segBbox.x_min, SourceW)

BoxY == RMul(segBbox.y_min, SourceH)

BoxW == RMul(BboxW, SourceW)

BoxH == RMul(BboxH, SourceH)

\* a request whose synchronous part has run to the write of the file
Rendered3(r) == req[r].pc \in {"writing", "done"}

ScaledByImage(p) == [x |-> RMul(p.x, SourceW), y |-> RMul(p.y, SourceH)]

ScaledByBox(p) == [x |-> RMul(p.x, BoxW), y |-> RMul(p.y, BoxH)]

ScaledByBoxThenOffset(p) ==
    [x |-> RAdd(RMul(p.x, BoxW), BoxX), y |-> RAdd(RMul(p.y, BoxH), BoxY)]

\* the source pixel shown at output pixel (u, v) of a request's raster
SourcePixel(r, u, v) == <<RSub(Num(u), req[r].drawAt[1]), RSub(Num(v), req[r].drawAt[2])>>

\* C11: the clip path and the image origin follow the mode: createCutout
\* scales the path by (W, H) and draws the image at (0, 0);
\* createCutoutWithBbox scales by (boxW, boxH), then offsets by (boxX, boxY),
\* and draws the image at (0, 0); createCroppedCutout scales by (boxW, boxH)
\* without offset and draws the image at (-boxX, -boxY), so that output pixel
\* (u, v) shows source pixel (u + boxX, v + boxY).
C11_ClipAndOriginFollowMode ==
    \A r \in Requests :
        Rendered3(r) =>
            CASE req[r].op = "createCutout" ->
                     /\ SamePoints(req[r].clip, ScaledByImage, Num(0))
                     /\ req[r].drawAt = <<Num(0), Num(0)>>
              [] req[r].op = "createCutoutWithBbox" ->
                     /\ SamePoints(req[r].clip, ScaledByBoxThenOffset, Num(0))
                     /\ req[r].drawAt = <<Num(0), Num(0)>>
              [] OTHER ->
                     /\ SamePoints(req[r].clip, ScaledByBox, Num(0))
                     /\ req[r].drawAt = <<RNeg(BoxX), RNeg(BoxY)>>
                     /\ \A u, v \in {0, 1} :
                            SourcePixel(r, u, v) = <<RAdd(Num(u), BoxX), RAdd(Num(v), BoxY)>>

\* a full-size cutout with bounding box and a cropped cutout of the same curve
\* path, box {0.1, 0.2, 0.5, 0.6} of a 400 x 400 image: the first clips from
\* (0.1 * 160 + 40, 0.2 * 160 + 80), the second draws the image at (-40, -80)
C11_Witness ==
    /\ srcImage.width = 400
    /\ segBbox = Region(1, 2, 5, 6)
    /\ \E r \in Requests :
           /\ Rendered3(r)
           /\ req[r].op = "createCutoutWithBbox"
           /\ Len(req[r].clip) = 4
           /\ req[r].clip[1].pts[1] = [x |-> Num(56), y |-> Num(112)]
    /\ \E r \in Requests :
           /\ Rendered3(r)
           /\ req[r].op = "createCroppedCutout"
           /\ req[r].drawAt = <<Num(-40), Num(-80)>>


PositiveBox == RGt(BboxW, Num(0)) /\ RGt(BboxH, Num(0))

\* a cropped cutout of the path that covers the whole bounding box
CroppedUnitSquare(r) ==
    /\ req[r].pc = "done"
    /\ req[r].op = "createCroppedCutout"
    /\ segPath = UnitSquare
    /\ PositiveBox

\* every pixel of the raster is opaque: opacity is the product of the column's
\* and the row's cover, neither above 1, so all of them must be 1
AllOpaque(r) ==
    LET sx == SpanX(r)
        sy == SpanY(r)
    IN  /\ IsRectangle(req[r].clip)
        /\ \A u \in Columns(r) : Cover(sx, u) = Num(1)
        /\ \A v \in Rows(r) : Cover(sy, v) = Num(1)

IsWhole(a) == a[2] = 1

\* what is left of a box side of `side` pixels from pixel u on, at most 1
Share(side, u) == RMin(Num(1), RSub(side, Num(u)))

ImageLoadError == "Failed to load image from URI"

PathParseError == "Failed to parse SVG path string"

SurfaceAllocationError == "Failed to create Skia surface"

\* the request is past the load of the source
Loaded(r) == req[r].pc \in {"failed", "writing", "done"}

TakesBbox(op) == op \in {"createCutoutWithBbox", "createCroppedCutout"}

\* the failures the claim prescribes for a request, by its inputs
Prescribed(r) ==
    (IF ~srcImage.ok THEN {ImageLoadError} ELSE {})
        \cup (IF Len(segPath) = 0 \/ ~IsSVGPath(segPath) THEN {PathParseError} ELSE {})
        \cup (IF TakesBbox(req[r].op) /\ ~PositiveBox THEN {SurfaceAllocationError} ELSE {})

\* C13: a cutout request fails with an image-load error when the source
\* cannot be read or decoded, with a path-parse error when the path is empty
\* or syntactically invalid, and with a surface-allocation error when the
\* bounding box has zero or negative width or height; the three are
\* distinguishable, in each of the three operations.  (Where several of the
\* conditions hold, any of their errors is accepted, and so is a surface that
\* could not be allocated for want of memory.)
C13_FailuresByInput ==
    /\ ImageLoadError # PathParseError
    /\ ImageLoadError # SurfaceAllocationError
    /\ PathParseError # SurfaceAllocationError
    /\ \A r \in Requests :
           Loaded(r) /\ Prescribed(r) # {} =>
               /\ req[r].pc = "failed"
               /\ req[r].error \in Prescribed(r) \cup {SurfaceAllocationError}


\* the cache files last written on behalf of request r
FilesOf(r) == {t \in DOMAIN cache : cache[t].present /\ cache[t].owner = r}

\* C14: a cutout request either completes or fails with no partial result:
\* when any step (load, parse, surface allocation, snapshot, encode, write)
\* fails, the request has added or changed no file of the cache directory and
\* returns no locator; a locator is returned only after its file has been
\* written.
C14_NoPartialResult ==
    \A r \in Requests :
        /\ req[r].pc = "failed" => FilesOf(r) = {} /\ req[r].returned = -1
        /\ req[r].returned # -1 =>
               /\ req[r].pc = "done"
               /\ req[r].writes = 1
               /\ cache[req[r].returned].present


\* the file behind the locator that request r returned holds r's artifact
HoldsOwnArtifact(r) ==
    /\ cache[req[r].returned].present
    /\ cache[req[r].returned].owner = r
    /\ cache[req[r].returned].whole

\* C15: cutout requests are independent also when they run concurrently: any
\* two requests that both complete return locators of two different cache
\* files, and the file behind each returned locator holds the artifact of the
\* request that returned it.
C15_ConcurrentRequestsIndependent ==
    \A r1, r2 \in Requests :
        r1 # r2 /\ req[r1].pc = "done" /\ req[r2].pc = "done" =>
            /\ req[r1].returned # req[r2].returned
            /\ HoldsOwnArtifact(r1)
            /\ HoldsOwnArtifact(r2)


(***************************************************************************)
(* moondreamApi.ts: one call of a Vision API method.  The method reads the *)
(* image (imageToBase64), then apiRequest checks the key, posts one fetch  *)
(* and reads the response.  Errors are records (name, message); name is "" *)
(* for a thrown value that is no Error.                                    *)
(***************************************************************************)
Methods == {"caption", "query", "detect", "point", "segment"}

\* getApiKey(): not configured, the placeholder, a key
ApiKeys == {"", "your_api_key_here", "md-key"}

\* response.status of the responses considered
Statuses == {200, 204, 400, 401, 429, 500}

\* the response body: JSON, text that is no JSON, nothing
Bodies == {"json", "text", ""}

Error(message) == [name |-> "Error", message |-> message]

\* what fetch rejects with
FetchRejection == [name |-> "TypeError", message |-> "Network request failed"]

\* what response.json() rejects with
JsonRejection == [name |-> "SyntaxError", message |-> "JSON Parse error"]

EncodeError == Error("Failed to encode image")

NotConfiguredError == Error("MOONDREAM_API_KEY is not configured. Please add your API key.")

InvalidKeyError == Error("Invalid API key. Please check your Moondream API key.")

RateLimitError == Error("Rate limit exceeded. Please wait and try again.")

RequestFailedError(status) == Error("API request failed: " \o ToString(status))

NetworkError == Error("Network error. Please check your internet connection.")

\* response.ok
ok(status) == 200 <= status /\ status <= 299

\* the catch block of apiRequest: an Error is thrown on as it is
Catch(error) == IF error.name # "" THEN error ELSE NetworkError

Failed(c, error) == [c EXCEPT !.pc = "failed", !.thrown = error]

\* the if / else if / else over response.status
StatusError(status) ==
    IF status = 401 THEN InvalidKeyError
    ELSE IF status = 429 THEN RateLimitError
    ELSE RequestFailedError(status)

\* apiRequest up to the await of fetch
apiRequest(c) ==
    IF c.apiKey = "" \/ c.apiKey = "your_api_key_here"
    THEN Failed(c, NotConfiguredError)
    ELSE [c EXCEPT !.pc = "fetching", !.requests = @ + 1]

\* mutant: a rate-limited request is posted once more
OnResponse_retryRateLimited(c, status, body) ==
    IF status = 429 /\ c.requests < 2
    THEN [c EXCEPT !.pc = "fetching", !.requests = @ + 1]
    ELSE [c EXCEPT !.status = status, !.body = body,
                   !.pc = IF ok(status) THEN "json" ELSE "text"]

\* fetch resolved: the response is read as text when it is not ok, as JSON
\* when it is
OnResponse(c, status, body) ==
    [c EXCEPT !.status = status, !.body = body,
              !.pc = IF ok(status) THEN "json" ELSE "text"]

InitApi ==
    /\ \E k \in ApiKeys, readable \in BOOLEAN :
           api = [IdleCall EXCEPT !.apiKey = k, !.readable = readable]
    /\ IdleOverlay
    /\ IdlePath
    /\ IdleCutout
    /\ IdleMarkers
    /\ IdleScreen
    /\ IdleKeys
    /\ IdleEditor
    /\ IdleCamera

\* caption, query, detect, point or segment is called: it awaits the read of
\* the image
ApiCall ==
    /\ api.pc = "idle"
    /\ \E m \in Methods : api' = [api EXCEPT !.method = m, !.pc = "encoding"]
    /\ UNCHANGED outsideApi

\* imageToBase64 settles; apiRequest starts
EncodeDone ==
    /\ api.pc = "encoding"
    /\ api' = IF api.readable
              THEN apiRequest([api EXCEPT !.reads = @ + 1])
              ELSE Failed([api EXCEPT !.reads = @ + 1], EncodeError)
    /\ UNCHANGED outsideApi

\* fetch settles: it rejects, or resolves with a response
FetchDone ==
    /\ api.pc = "fetching"
    /\ \/ api' = Failed([api EXCEPT !.rejected = TRUE], Catch(FetchRejection))
       \/ \E status \in Statuses, body \in Bodies : api' = OnResponse(api, status, body)
    /\ UNCHANGED outsideApi

\* response.text() resolves; the error for the status is thrown and caught
TextDone ==
    /\ api.pc = "text"
    /\ api' = Failed(api, Catch(StatusError(api.status)))
    /\ UNCHANGED outsideApi

\* response.json() settles: the parsed body is returned, or its rejection is
\* caught
JsonDone ==
    /\ api.pc = "json"
    /\ api' = IF api.body = "json"
              THEN [api EXCEPT !.pc = "done", !.returned = "parsed body"]
              ELSE Failed(api, Catch(JsonRejection))
    /\ UNCHANGED outsideApi

NextApi == ApiCall \/ EncodeDone \/ FetchDone \/ TextDone \/ JsonDone

SpecApi == InitApi /\ [][NextApi]_vars


(***************************************************************************)
(* One call of a cutout operation next to one call of a Vision API method. *)
(***************************************************************************)
InitCalls ==
    /\ srcImage \in Images
    /\ windowWidth \in WindowWidths
    /\ segPath \in {UnitSquare, <<Cmd("M"), N(100)>>}
    /\ segBbox \in {Region(0, 0, 5, 5), Region(5, 5, 5, 5)}
    /\ segLayout = ZeroLayout
    /\ segOverlay = NoResult
    /\ segPc = "idle"
    /\ req = [r \in Requests |-> IdleRequest]
    /\ cache = [t \in 0..MaxClock |-> NoFile]
    /\ now = 0
    /\ \E k \in ApiKeys, readable \in BOOLEAN :
           api = [IdleCall EXCEPT !.apiKey = k, !.readable = readable]
    /\ IdleOverlay
    /\ IdlePath
    /\ IdleMarkers
    /\ IdleScreen
    /\ IdleKeys
    /\ IdleEditor
    /\ IdleCamera

NextCalls ==
    \/ Call(1)
    \/ LoadDone(1)
    \/ WriteDone(1)
    \/ ApiCall
    \/ EncodeDone
    \/ FetchDone
    \/ TextDone
    \/ JsonDone

SpecCalls == InitCalls /\ [][NextCalls]_vars

\* the call has ended, with a result or an error
Ended(pc) == pc \in {"failed", "done"}

\* C16: nothing is retried automatically: one call of a cutout operation
\* performs at most one read of the source and at most one write to the
\* cache, and one call of a Vision API method issues at most one HTTP
\* request, whether the call succeeds or fails.
C16_NothingRetried ==
    /\ \A r \in Requests :
           /\ req[r].reads <= 1
           /\ req[r].writes <= 1
           /\ Ended(req[r].pc) => req[r].reads = 1
    /\ api.requests <= 1
    /\ api.reads <= 1
    /\ Ended(api.pc) =>
           api.requests = (IF api.readable /\ api.apiKey = "md-key" THEN 1 ELSE 0)

\* a cutout whose write was rejected after one read and one write, next to a
\* rate-limited API call that posted one request
C16_Witness ==
    /\ req[1].pc = "failed"
    /\ req[1].error = "write rejected"
    /\ req[1].reads = 1
    /\ req[1].writes = 1
    /\ api.pc = "failed"
    /\ api.status = 429
    /\ api.requests = 1


\* the call is past its fetch
Answered == Ended(api.pc) /\ api.requests = 1

\* C17: for every response of the vision service apiRequest surfaces a typed,
\* distinguishable error: status 401 gives the invalid-key error, 429 the
\* rate-limit error, any other non-2xx status the generic request failure
\* carrying that status, and a transport-level failure (fetch rejects) gives
\* the network error; a 2xx response never produces an error and returns the
\* parsed body.
C17_TypedErrors ==
    /\ \A status \in Statuses \ {401, 429} :
           /\ RequestFailedError(status) \notin {InvalidKeyError, RateLimitError, NetworkError}
           /\ \A other \in Statuses \ {401, 429, status} :
                  RequestFailedError(status) # RequestFailedError(other)
    /\ InvalidKeyError # RateLimitError
    /\ NetworkError \notin {InvalidKeyError, RateLimitError}
    /\ Answered =>
           IF api.rejected THEN api.pc = "failed" /\ api.thrown = NetworkError
           ELSE IF ok(api.status)
                THEN api.pc = "done" /\ api.thrown = NoError /\ api.returned = "parsed body"
           ELSE /\ api.pc = "failed"
                /\ api.thrown = (IF api.status = 401 THEN InvalidKeyError
                                 ELSE IF api.status = 429 THEN RateLimitError
                                 ELSE RequestFailedError(api.status))


(***************************************************************************)
(* PointMarkerOverlay and the colours and labels of BoundingBoxOverlay:    *)
(* what is drawn for the points or the objects of one API response.        *)
(***************************************************************************)
POINT_COLORS ==
    <<"#FF6B6B", "#4ECDC4", "#45B7D1", "#96CEB4", "#FFEAA7", "#DDA0DD", "#98D8C8",
      "#F7DC6F">>

BOX_COLORS ==
    <<"#FF6B6B", "#4ECDC4", "#45B7D1", "#96CEB4", "#FFEAA7", "#DDA0DD", "#98D8C8",
      "#F7DC6F">>

MARKER_SIZE == 28

\* mutant: past the end of the palette the last colour is kept
PaletteColor_lastKept(palette, index) ==
    palette[(IF index < Len(palette) THEN index ELSE Len(palette) - 1) + 1]

\* palette[index % palette.length], index counted from 0
PaletteColor(palette, index) == palette[(index % Len(palette)) + 1]

\* mutant: the marker is placed by the size of the image, not by the layout of
\* the image in it
PointMarker_byImageSize(point, index, imageWidth, imageHeight, layout) ==
    [left |-> RSub(RMul(point.x, imageWidth), Rat(MARKER_SIZE, 2)),
     top |-> RSub(RMul(point.y, imageHeight), Rat(MARKER_SIZE, 2)),
     width |-> Num(MARKER_SIZE),
     height |-> Num(MARKER_SIZE),
     backgroundColor |-> PaletteColor(POINT_COLORS, index),
     text |-> ToString(index + 1)]

\* the style and the text of the marker of points[index]
PointMarker(point, index, imageWidth, imageHeight, layout) ==
    [left |-> RSub(RAdd(layout.x, RMul(point.x, layout.width)), Rat(MARKER_SIZE, 2)),
     top |-> RSub(RAdd(layout.y, RMul(point.y, layout.height)), Rat(MARKER_SIZE, 2)),
     width |-> Num(MARKER_SIZE),
     height |-> Num(MARKER_SIZE),
     backgroundColor |-> PaletteColor(POINT_COLORS, index),
     text |-> ToString(index + 1)]

PointMarkerOverlay(points, imageWidth, imageHeight, layout) ==
    IF Len(points) = 0 THEN <<>>
    ELSE [i \in 1..Len(points) |->
             PointMarker(points[i], i - 1, imageWidth, imageHeight, layout)]

\* the box of boxes[index] with its border colour and label
LabelledBox(box, index, imageWidth, imageHeight, objectName) ==
    [style |-> BoxStyle(box, imageWidth, imageHeight),
     borderColor |-> PaletteColor(BOX_COLORS, index),
     text |-> IF objectName # "" THEN objectName \o " " \o ToString(index + 1)
              ELSE "#" \o ToString(index + 1)]

LabelledBoxes(boxes, imageWidth, imageHeight, objectName) ==
    IF Len(boxes) = 0 THEN <<>>
    ELSE [i \in 1..Len(boxes) |->
             LabelledBox(boxes[i], i - 1, imageWidth, imageHeight, objectName)]

\* a response holds at most MaxMarks objects or points
MaxMarks == 9

Point(x, y) == [x |-> Rat(x, 10), y |-> Rat(y, 10)]

PointChoices == <<Point(5, 5), Point(1, 2), Point(10, 10), Point(0, 0)>>

RegionChoices == <<Region(1, 2, 5, 6), Region(0, 0, 10, 10), Region(5, 6, 1, 2)>>

\* n elements taken from the choices, starting at `shift` and going on by `stride`
Arranged(choices, n, shift, stride) ==
    [i \in 1..n |-> choices[((shift + (i - 1) * stride) % Len(choices)) + 1]]

MarkerLayouts ==
    {Layout(Num(0), Num(0), Num(300), Num(200)),
     Layout(Num(45), Num(0), Num(270), Num(270)),
     Layout(Num(0), Num(100), Num(300), Num(200))}

InitMarkers ==
    /\ \E n \in 0..MaxMarks, shift \in 0..1, stride \in 0..1, kind \in {"objects", "points"},
          name \in {"", "cat"}, layout \in MarkerLayouts :
           detected =
               [objects |-> IF kind = "objects" THEN Arranged(RegionChoices, n, shift, stride)
                            ELSE <<>>,
                points |-> IF kind = "points" THEN Arranged(PointChoices, n, shift, stride)
                           ELSE <<>>,
                objectName |-> name,
                imageWidth |-> RAdd(layout.width, RMul(Num(2), layout.x)),
                imageHeight |-> RAdd(layout.height, RMul(Num(2), layout.y)),
                imageLayout |-> layout]
    /\ drawn = NothingDrawn
    /\ mkPc = "input"
    /\ IdleOverlay
    /\ IdlePath
    /\ IdleCutout
    /\ IdleApi
    /\ IdleScreen
    /\ IdleKeys
    /\ IdleEditor
    /\ IdleCamera

\* renderOverlays: the boxes of a detect result, or else the markers of a
\* point result
RenderMarks ==
    /\ mkPc = "input"
    /\ drawn' =
           IF Len(detected.objects) > 0
           THEN [boxes |-> LabelledBoxes(detected.objects, detected.imageWidth,
                                         detected.imageHeight, detected.objectName),
                 markers |-> <<>>]
           ELSE IF Len(detected.points) > 0
           THEN [boxes |-> <<>>,
                 markers |-> PointMarkerOverlay(detected.points, detected.imageWidth,
                                                detected.imageHeight, detected.imageLayout)]
           ELSE NothingDrawn
    /\ mkPc' = "rendered"
    /\ UNCHANGED detected
    /\ UNCHANGED outsideMarkers

NextMarkers == RenderMarks

SpecMarkers == InitMarkers /\ [][NextMarkers]_vars


(***************************************************************************)
(* C18: for every Point of a point result and the layout of the displayed  *)
(* image, the marker is centred on the pixel                               *)
(* (layout.x + point.x*layout.width, layout.y + point.y*layout.height):    *)
(* its top-left corner lies MARKER_SIZE/2 to the left of and above it.     *)
(***************************************************************************)
MarkersDrawn == mkPc = "rendered" /\ Len(drawn.markers) > 0

PixelX(point, layout) == RAdd(layout.x, RMul(point.x, layout.width))

PixelY(point, layout) == RAdd(layout.y, RMul(point.y, layout.height))

CentreX(marker) == RAdd(marker.left, RDiv(marker.width, Num(2)))

CentreY(marker) == RAdd(marker.top, RDiv(marker.height, Num(2)))

C18_MarkerCentredOnPoint ==
    MarkersDrawn =>
        /\ Len(drawn.markers) = Len(detected.points)
        /\ \A i \in 1..Len(detected.points) :
               LET point == detected.points[i]
                   marker == drawn.markers[i]
                   px == PixelX(point, detected.imageLayout)
                   py == PixelY(point, detected.imageLayout)
               IN  /\ CentreX(marker) = px
                   /\ CentreY(marker) = py
                   /\ marker.left = RSub(px, Rat(MARKER_SIZE, 2))
                   /\ marker.top = RSub(py, Rat(MARKER_SIZE, 2))

\* a marker of a point off the centre of an image that is letterboxed on the
\* left and right
C18_Witness ==
    /\ MarkersDrawn
    /\ RGt(detected.imageLayout.x, Num(0))
    /\ \E i \in 1..Len(detected.points) :
           /\ detected.points[i] = Point(1, 2)
           /\ drawn.markers[i].left = Num(58)
           /\ drawn.markers[i].top = Num(40)


(***************************************************************************)
(* C19: detections and points are rendered in the order of the response:   *)
(* the i-th element (counted from 0) gets label number i+1 and the colour  *)
(* palette[i mod 8] of a fixed palette of 8 distinct colours, so two       *)
(* elements share a colour exactly when their indices are congruent        *)
(* modulo 8, whatever the coordinates of the elements.                     *)
(***************************************************************************)
BoxesDrawn == mkPc = "rendered" /\ Len(drawn.boxes) > 0

Distinct(palette) ==
    \A i, j \in 1..Len(palette) : palette[i] = palette[j] => i = j

\* element i of the response is what view i shows (i counted from 1 here)
BoxShows(view, box) ==
    /\ view.style.left = RMul(box.x_min, detected.imageWidth)
    /\ view.style.top = RMul(box.y_min, detected.imageHeight)

MarkerShows(view, point) ==
    /\ CentreX(view) = PixelX(point, detected.imageLayout)
    /\ CentreY(view) = PixelY(point, detected.imageLayout)

NumberedByOrder(views, Colour(_), palette) ==
    /\ \A i \in 1..Len(views) :
           Colour(views[i]) = palette[((i - 1) % 8) + 1]
    /\ \A i, j \in 1..Len(views) :
           (Colour(views[i]) = Colour(views[j])) <=> ((i - 1) % 8 = (j - 1) % 8)

BorderColor(view) == view.borderColor

BackgroundColor(view) == view.backgroundColor

C19_OrderLabelsColours ==
    /\ Len(POINT_COLORS) = 8 /\ Distinct(POINT_COLORS)
    /\ Len(BOX_COLORS) = 8 /\ Distinct(BOX_COLORS)
    /\ BoxesDrawn =>
           /\ Len(drawn.boxes) = Len(detected.objects)
           /\ \A i \in 1..Len(drawn.boxes) :
                  /\ BoxShows(drawn.boxes[i], detected.objects[i])
                  /\ drawn.boxes[i].text =
                         IF detected.objectName # ""
                         THEN detected.objectName \o " " \o ToString(i)
                         ELSE "#" \o ToString(i)
           /\ NumberedByOrder(drawn.boxes, BorderColor, BOX_COLORS)
    /\ MarkersDrawn =>
           /\ Len(drawn.markers) = Len(detected.points)
           /\ \A i \in 1..Len(drawn.markers) :
                  /\ MarkerShows(drawn.markers[i], detected.points[i])
                  /\ drawn.markers[i].text = ToString(i)
           /\ NumberedByOrder(drawn.markers, BackgroundColor, POINT_COLORS)

\* nine different boxes: the ninth has the colour of the first and of no other
C19_Witness ==
    /\ BoxesDrawn
    /\ Len(drawn.boxes) = 9
    /\ detected.objects[9] # detected.objects[1]
    /\ detected.objects[2] # detected.objects[1]
    /\ drawn.boxes[9].borderColor = drawn.boxes[1].borderColor
    /\ drawn.boxes[9].text = "cat 9"
    /\ \A i \in 2..8 : drawn.boxes[i].borderColor # drawn.boxes[1].borderColor


(***************************************************************************)
(* C20: an inverted Region (x_min > x_max or y_min > y_max) is never       *)
(* treated as an error and never clamped or reordered: the overlay mapper  *)
(* gives the rectangle of negative width or height that its formula gives, *)
(* and every cutout operation given such a bbox produces an output instead *)
(* of failing.  (For a request on a readable source with a path that       *)
(* parses: the operation it ran goes through to the write whenever no      *)
(* Skia call fails for want of memory, so a request that failed did so by  *)
(* such a fault or by a rejected write.)                                   *)
(***************************************************************************)
Inverted(box) == RGt(box.x_min, box.x_max) \/ RGt(box.y_min, box.y_max)

\* what the operation of request r leaves when every Skia allocation succeeds
Unfaulted(r) ==
    AfterLoad(req[r].op, Num(srcImage.width), Num(srcImage.height), segPath, segBbox,
              "none")

C20_InvertedRegionPassesThrough ==
    Inverted(segBbox) /\ srcImage.ok =>
        /\ LET style == BoxStyle(segBbox, Num(srcImage.width), Num(srcImage.height))
           IN  /\ style.width = RMul(RSub(segBbox.x_max, segBbox.x_min), Num(srcImage.width))
               /\ style.height = RMul(RSub(segBbox.y_max, segBbox.y_min), Num(srcImage.height))
               /\ RGt(segBbox.x_min, segBbox.x_max) => RLt(style.width, Num(0))
               /\ RGt(segBbox.y_min, segBbox.y_max) => RLt(style.height, Num(0))
        /\ \A r \in Requests :
               Loaded(r) /\ TakesBbox(req[r].op) /\ IsSVGPath(segPath) =>
                   /\ Unfaulted(r).error = ""
                   /\ req[r].pc = "failed" =>
                          req[r].error \in {SurfaceAllocationError, "Failed to create image snapshot",
                                            "Failed to encode image to PNG", "write rejected"}

(***************************************************************************)
(* analysis.tsx: the analysis screen.  Its state hooks, the handlers the   *)
(* user reaches through the enabled controls, the callbacks of             *)
(* Image.getSize and of the Vision API call, and the route parameter       *)
(* imageUri, which the router may change while the screen stays mounted.   *)
(* The text of the input field is the list of its characters.              *)
(***************************************************************************)
\* a handler started at most MaxAnalyses times
MaxAnalyses == 2

\* a response holds at most MaxFound objects or points
MaxFound == 1

AnalysisModes == {"caption", "query", "detect", "point", "segment"}

ImageUris == {1, 2}

InputTexts == {<<>>, <<" ">>, <<"c">>, <<" ", "c", " ">>}

\* the sizes Image.getSize reports
ReportedSizes == {<<400, 300>>, <<300, 400>>, <<0, 300>>, <<400, 0>>, <<0, 0>>}

ScreenWindowWidth == 400

RECURSIVE TrimStart(_)
TrimStart(text) ==
    IF Len(text) > 0 /\ Head(text) = " " THEN TrimStart(Tail(text)) ELSE text

RECURSIVE TrimEnd(_)
TrimEnd(text) ==
    IF Len(text) > 0 /\ text[Len(text)] = " "
    THEN TrimEnd(SubSeq(text, 1, Len(text) - 1))
    ELSE text

\* String.prototype.trim
Trim(text) == TrimEnd(TrimStart(text))

\* the message handleAnalyze shows for a blank input
BlankInputError(mode) ==
    IF mode = "query" THEN "Please enter a question"
    ELSE IF mode = "segment" THEN "Please enter an object to segment"
    ELSE "Please enter an object to find"

\* the key of ResultType that a response of the mode sets
ResultKind(mode) ==
    CASE mode = "caption" -> "caption"
      [] mode = "query" -> "answer"
      [] mode = "detect" -> "objects"
      [] mode = "point" -> "points"
      [] OTHER -> "segment"

\* the useState initial values and the first run of the effects
MountedScreen(uri) ==
    [imageUri |-> uri, selectedMode |-> "caption", isLoading |-> FALSE, error |-> "",
     result |-> NoAnalysis, inputText |-> <<>>,
     imageDimensions |-> [width |-> IMAGE_WIDTH(ScreenWindowWidth),
                          height |-> IMAGE_HEIGHT(ScreenWindowWidth)],
     imageAspectRatio |-> Num(1), sizeLookups |-> {uri}, inFlight |-> <<>>,
     started |-> 0, sent |-> 0, ended |-> 0]

InitScreen ==
    /\ \E uri \in ImageUris : screen = MountedScreen(uri)
    /\ IdleOverlay
    /\ IdlePath
    /\ IdleCutout
    /\ IdleApi
    /\ IdleMarkers
    /\ IdleKeys
    /\ IdleEditor
    /\ IdleCamera

\* the success callback of Image.getSize(imageUri, ...)
GetSizeDone ==
    /\ \E uri \in screen.sizeLookups, size \in ReportedSizes :
           LET aspectRatio == RDiv(Num(size[1]), Num(size[2]))
               displayWidth == IMAGE_WIDTH(ScreenWindowWidth)
               displayHeight == RDiv(displayWidth, aspectRatio)
           IN  screen' =
                   [screen EXCEPT
                        !.imageAspectRatio = aspectRatio,
                        !.imageDimensions =
                            [width |-> displayWidth,
                             height |-> RMin(displayHeight, IMAGE_HEIGHT(ScreenWindowWidth))],
                        !.sizeLookups = @ \ {uri}]
    /\ UNCHANGED outsideScreen

\* the route parameter imageUri changes; the effect keyed by it asks for the
\* size of the new image
ChangeImage ==
    /\ \E uri \in ImageUris \ {screen.imageUri} :
           screen' = [screen EXCEPT !.imageUri = uri, !.sizeLookups = @ \cup {uri}]
    /\ UNCHANGED outsideScreen

\* onChangeText of the input field: rendered in every mode but caption,
\* editable while no request is loading
EditText ==
    /\ screen.selectedMode # "caption"
    /\ ~screen.isLoading
    /\ \E text \in InputTexts \ {screen.inputText} :
           screen' = [screen EXCEPT !.inputText = text]
    /\ UNCHANGED outsideScreen

\* onModeChange of the ModeSelector (disabled while loading), with the effect
\* keyed by selectedMode that clears result, error and input
SelectMode ==
    /\ ~screen.isLoading
    /\ \E mode \in AnalysisModes \ {screen.selectedMode} :
           screen' = [screen EXCEPT !.selectedMode = mode, !.result = NoAnalysis,
                                    !.error = "", !.inputText = <<>>]
    /\ UNCHANGED outsideScreen

\* mutant: the Analyze button stays enabled while a request is loading
HandleAnalyze_notDisabled ==
    /\ screen.started < MaxAnalyses
    /\ IF screen.selectedMode # "caption" /\ Trim(screen.inputText) = <<>>
       THEN screen' = [screen EXCEPT !.error = BlankInputError(screen.selectedMode),
                                     !.isLoading = FALSE,
                                     !.started = @ + 1, !.ended = @ + 1]
       ELSE screen' = [screen EXCEPT
                           !.isLoading = TRUE,
                           !.error = "",
                           !.inFlight = Append(@, [mode |-> screen.selectedMode,
                                                   image |-> screen.imageUri,
                                                   text |-> Trim(screen.inputText)]),
                           !.started = @ + 1, !.sent = @ + 1]
    /\ UNCHANGED outsideScreen

\* handleAnalyze up to its await (the Analyze button is disabled while
\* loading): a blank question or object ends it with an error and no request
HandleAnalyze ==
    /\ ~screen.isLoading
    /\ screen.started < MaxAnalyses
    /\ IF screen.selectedMode # "caption" /\ Trim(screen.inputText) = <<>>
       THEN screen' = [screen EXCEPT !.error = BlankInputError(screen.selectedMode),
                                     !.isLoading = FALSE,
                                     !.started = @ + 1, !.ended = @ + 1]
       ELSE screen' = [screen EXCEPT
                           !.isLoading = TRUE,
                           !.error = "",
                           !.inFlight = Append(@, [mode |-> screen.selectedMode,
                                                   image |-> screen.imageUri,
                                                   text |-> Trim(screen.inputText)]),
                           !.started = @ + 1, !.sent = @ + 1]
    /\ UNCHANGED outsideScreen

\* mutant: an empty collection is also reported as an error
OnAnalysisResponse_emptyIsError(request, count) ==
    [screen EXCEPT !.result = [kind |-> ResultKind(request.mode), count |-> count,
                               mode |-> request.mode, image |-> request.image],
                   !.error = IF count = 0 THEN "Nothing found" ELSE @,
                   !.isLoading = FALSE, !.ended = @ + 1]

\* the call of MoondreamApi resolved: setResult, then finally
OnAnalysisResponse(request, count) ==
    [screen EXCEPT !.result = [kind |-> ResultKind(request.mode), count |-> count,
                               mode |-> request.mode, image |-> request.image],
                   !.isLoading = FALSE, !.ended = @ + 1]

\* the call of MoondreamApi rejected: catch, then finally
OnAnalysisError(request, message) ==
    [screen EXCEPT !.error = message, !.isLoading = FALSE, !.ended = @ + 1]

\* the Vision API call of the oldest pending handleAnalyze settles
AnalysisSettles ==
    /\ Len(screen.inFlight) > 0
    /\ LET request == Head(screen.inFlight)
       IN  \/ \E count \in 0..MaxFound :
                  /\ count = 1 \/ ResultKind(request.mode) \in {"objects", "points"}
                  /\ screen' = [OnAnalysisResponse(request, count)
                                    EXCEPT !.inFlight = Tail(screen.inFlight)]
           \/ \E message \in {"Too many requests - please wait", "API request failed: 500"} :
                  screen' = [OnAnalysisError(request, message)
                                 EXCEPT !.inFlight = Tail(screen.inFlight)]
    /\ UNCHANGED outsideScreen

NextScreen ==
    \/ GetSizeDone
    \/ ChangeImage
    \/ EditText
    \/ SelectMode
    \/ HandleAnalyze
    \/ AnalysisSettles

SpecScreen == InitScreen /\ [][NextScreen]_vars

\* the API call of a started handleAnalyze settles in the end
FairScreen == SpecScreen /\ WF_vars(AnalysisSettles)

(***************************************************************************)
(* C21: when containerHeight is 0 or imageAspectRatio is 0 or not finite   *)
(* (as when the size lookup reports width 0 or height 0), the layout       *)
(* computation returns a zero-size layout (or fails); it never returns a   *)
(* layout with an infinite or NaN width, height or offset.                 *)
(***************************************************************************)
\* the layout renderOverlays computes in the current state of the screen
ScreenLayout ==
    getRenderedImageLayout(screen.imageDimensions.width, screen.imageDimensions.height,
                           screen.imageAspectRatio)

Degenerate ==
    \/ screen.imageDimensions.height = Num(0)
    \/ screen.imageAspectRatio = Num(0)
    \/ ~IsFinite(screen.imageAspectRatio)

FiniteLayout(layout) ==
    IsFinite(layout.x) /\ IsFinite(layout.y) /\ IsFinite(layout.width)
        /\ IsFinite(layout.height)

ZeroSize(layout) == layout.width = Num(0) \/ layout.height = Num(0)

C21_NoDivisionByZeroInLayout ==
    Degenerate => FiniteLayout(ScreenLayout) /\ ZeroSize(ScreenLayout)

(***************************************************************************)
(* C22: an empty result collection renders nothing and raises no error:    *)
(* for objects = [] the bounding-box overlay draws no box, for points = [] *)
(* the point overlay draws no marker, and the screen sets no error when    *)
(* the response arrives.                                                   *)
(***************************************************************************)
\* the string of a list of characters
RECURSIVE Join(_)
Join(chars) == IF Len(chars) = 0 THEN "" ELSE Head(chars) \o Join(Tail(chars))

\* renderOverlays for the result on the screen, the found elements standing
\* at the places of RegionChoices and PointChoices
RenderedOverlays ==
    LET result == screen.result
        layout == ScreenLayout
    IN  IF result.kind = "objects" /\ result.count > 0
        THEN [boxes |-> LabelledBoxes(Arranged(RegionChoices, result.count, 0, 1),
                                      screen.imageDimensions.width,
                                      screen.imageDimensions.height, Join(screen.inputText)),
              markers |-> <<>>]
        ELSE IF result.kind = "points" /\ result.count > 0
        THEN [boxes |-> <<>>,
              markers |-> PointMarkerOverlay(Arranged(PointChoices, result.count, 0, 1),
                                             screen.imageDimensions.width,
                                             screen.imageDimensions.height, layout)]
        ELSE NothingDrawn

EmptyCollection(result) == result.kind \in {"objects", "points"} /\ result.count = 0

C22_EmptyResultDrawsNothing ==
    /\ [](EmptyCollection(screen.result) => RenderedOverlays = NothingDrawn)
    /\ [][screen'.result # screen.result /\ EmptyCollection(screen'.result) =>
              screen'.error = ""]_vars

C22_Witness ==
    /\ screen.result.kind = "objects"
    /\ screen.result.count = 0
    /\ screen.error = ""
    /\ ~screen.isLoading
    /\ RenderedOverlays = NothingDrawn

(***************************************************************************)
(* C23: whenever the screen shows a result (caption, answer, boxes, points *)
(* or segment), it was produced by a request issued in the selected mode   *)
(* and for the displayed image: changing the mode clears result, error and *)
(* input, the mode cannot change while a request is in flight, and a       *)
(* result of an earlier image is never drawn over a later image.           *)
(***************************************************************************)
ResultShown == screen.result.kind # "none"

ResultOfSelectedMode == ResultShown => screen.result.mode = screen.selectedMode

ResultOfDisplayedImage == ResultShown => screen.result.image = screen.imageUri

ModeChangeClears ==
    screen'.selectedMode # screen.selectedMode =>
        /\ Len(screen.inFlight) = 0
        /\ screen'.result = NoAnalysis
        /\ screen'.error = ""
        /\ screen'.inputText = <<>>

C23_ResultOfModeAndImage ==
    /\ [](ResultOfSelectedMode /\ ResultOfDisplayedImage)
    /\ [][ModeChangeClears]_vars

(***************************************************************************)
(* C24: at most one analysis request is in flight at any time, isLoading   *)
(* is true exactly while one is, and every started handleAnalyze ends with *)
(* isLoading false, whether its request succeeds, fails or is rejected by  *)
(* the validation of the input (blank question or object), in which case   *)
(* no request is sent at all.                                              *)
(***************************************************************************)
OneInFlight ==
    /\ Len(screen.inFlight) <= 1
    /\ screen.isLoading <=> Len(screen.inFlight) = 1
    /\ screen.started = screen.ended + Len(screen.inFlight)
    /\ screen.sent <= screen.started

BlankInput == screen.selectedMode # "caption" /\ Trim(screen.inputText) = <<>>

\* a handleAnalyze that starts on a blank input sends nothing and is over
BlankIsRejected ==
    screen'.started > screen.started /\ BlankInput =>
        /\ screen'.sent = screen.sent
        /\ screen'.inFlight = screen.inFlight
        /\ screen'.ended = screen.ended + 1
        /\ ~screen'.isLoading
        /\ screen'.error = BlankInputError(screen.selectedMode)

MaxKeyCalls == 3

\* the id of the key an earlier session left in storage
StoredKeyId == 1

\* the ids a call may name: the stored key, the keys added, and an unknown one
KeyIds == 1..(StoredKeyId + MaxKeyCalls + 1)

\* what AsyncStorage holds when the provider mounts
StoredSessions ==
    {[storedKeys |-> NoItem, storedActive |-> 0],
     [storedKeys |-> [present |-> TRUE, value |-> <<StoredKeyId>>],
      storedActive |-> StoredKeyId]}

Ids(keys) == {keys[i] : i \in 1..Len(keys)}

\* apiKeys.filter(k => k.id !== id)
Without(keys, id) == SelectSeq(keys, LAMBDA k : k # id)

\* the id generateId returns: one no entry has had
FreshId == StoredKeyId + 1 + Cardinality(keyStore.added)

InitKeys ==
    /\ \E session \in StoredSessions :
           keyStore =
               [apiKeys |-> <<>>, activeKeyId |-> 0, isLoading |-> TRUE,
                storedKeys |-> session.storedKeys, storedActive |-> session.storedActive,
                load |-> [pc |-> "reading", keysJson |-> session.storedKeys,
                          activeId |-> session.storedActive],
                calls |-> <<>>, added |-> {}, removed |-> {}, early |-> FALSE]
    /\ IdleOverlay
    /\ IdlePath
    /\ IdleCutout
    /\ IdleApi
    /\ IdleMarkers
    /\ IdleScreen
    /\ IdleEditor
    /\ IdleCamera

\* loadFromStorage after its await: the two items as they were read on mount
LoadFromStorageDone ==
    /\ keyStore.load.pc = "reading"
    /\ keyStore' =
           [keyStore EXCEPT
                !.apiKeys = IF keyStore.load.keysJson.present
                            THEN keyStore.load.keysJson.value ELSE @,
                !.activeKeyId = IF keyStore.load.activeId # 0
                                THEN keyStore.load.activeId ELSE @,
                !.isLoading = FALSE,
                !.load = [pc |-> "done", keysJson |-> NoItem, activeId |-> 0]]
    /\ UNCHANGED outsideKeys

\* a call that has started: its arguments and the state it closed over
NewCall(op, id, updatedKeys) ==
    [op |-> op, id |-> id, pc |-> "savingKeys", apiKeys |-> keyStore.apiKeys,
     activeKeyId |-> keyStore.activeKeyId, updatedKeys |-> updatedKeys]

\* addApiKey up to the await of saveKeysToStorage
AddApiKey ==
    /\ Len(keyStore.calls) < MaxKeyCalls
    /\ LET id == FreshId
           updatedKeys == Append(keyStore.apiKeys, id)
       IN  keyStore' =
               [keyStore EXCEPT
                    !.apiKeys = updatedKeys,
                    !.storedKeys = [present |-> TRUE, value |-> updatedKeys],
                    !.calls = Append(@, NewCall("addApiKey", id, updatedKeys)),
                    !.added = @ \cup {id},
                    !.early = @ \/ keyStore.isLoading]
    /\ UNCHANGED outsideKeys

\* removeApiKey up to the await of saveKeysToStorage
RemoveApiKey ==
    /\ Len(keyStore.calls) < MaxKeyCalls
    /\ \E id \in KeyIds :
           LET updatedKeys == Without(keyStore.apiKeys, id)
           IN  keyStore' =
                   [keyStore EXCEPT
                        !.apiKeys = updatedKeys,
                        !.storedKeys = [present |-> TRUE, value |-> updatedKeys],
                        !.calls = Append(@, NewCall("removeApiKey", id, updatedKeys)),
                        !.removed = @ \cup {id},
                        !.early = @ \/ keyStore.isLoading]
    /\ UNCHANGED outsideKeys

\* a call that has returned
Returned(call) ==
    [call EXCEPT !.pc = "done", !.apiKeys = <<>>, !.activeKeyId = 0, !.updatedKeys = <<>>]

\* setActiveKey up to the await of saveActiveKeyToStorage; an id that is not
\* in apiKeys changes nothing
SetActiveKey ==
    /\ Len(keyStore.calls) < MaxKeyCalls
    /\ \E id \in KeyIds :
           IF id \in Ids(keyStore.apiKeys)
           THEN keyStore' =
                    [keyStore EXCEPT
                         !.activeKeyId = id,
                         !.storedActive = id,
                         !.calls = Append(@, [NewCall("setActiveKey", id, <<>>)
                                                  EXCEPT !.pc = "savingActive"]),
                         !.early = @ \/ keyStore.isLoading]
           ELSE keyStore' =
                    [keyStore EXCEPT
                         !.calls = Append(@, Returned(NewCall("setActiveKey", id, <<>>))),
                         !.early = @ \/ keyStore.isLoading]
    /\ UNCHANGED outsideKeys

\* updatedKeys.length > 0 ? updatedKeys[0].id : null
NewActiveId(call) ==
    IF Len(call.updatedKeys) > 0 THEN call.updatedKeys[1] ELSE 0

\* addApiKey or removeApiKey resumes after saveKeysToStorage
KeysSaved ==
    \E c \in 1..Len(keyStore.calls) :
        LET call == keyStore.calls[c]
        IN  /\ call.pc = "savingKeys"
            /\ IF call.op = "addApiKey" /\ Len(call.apiKeys) = 0
               THEN keyStore' =
                        [keyStore EXCEPT
                             !.activeKeyId = call.id,
                             !.storedActive = call.id,
                             !.calls[c] = [call EXCEPT !.pc = "savingActive"]]
               ELSE IF call.op = "removeApiKey" /\ call.activeKeyId = call.id
               THEN keyStore' =
                        [keyStore EXCEPT
                             !.activeKeyId = NewActiveId(call),
                             !.storedActive = NewActiveId(call),
                             !.calls[c] = [call EXCEPT !.pc = "savingActive"]]
               ELSE keyStore' = [keyStore EXCEPT !.calls[c] = Returned(call)]
            /\ UNCHANGED outsideKeys

\* a call resumes after saveActiveKeyToStorage and returns
ActiveSaved ==
    \E c \in 1..Len(keyStore.calls) :
        /\ keyStore.calls[c].pc = "savingActive"
        /\ keyStore' = [keyStore EXCEPT !.calls[c] = Returned(keyStore.calls[c])]
        /\ UNCHANGED outsideKeys

NextKeys ==
    \/ LoadFromStorageDone
    \/ AddApiKey
    \/ RemoveApiKey
    \/ SetActiveKey
    \/ KeysSaved
    \/ ActiveSaved

SpecKeys == InitKeys /\ [][NextKeys]_vars

(***************************************************************************)
(* C25: after any sequence of addApiKey, removeApiKey and setActiveKey     *)
(* calls, overlapping ones included, activeKeyId is null or the id of an   *)
(* entry of apiKeys, and it is not null whenever apiKeys is not empty.     *)
(* (Stated of the calls made once the initial load has completed, when     *)
(* all of them have returned.)                                             *)
(***************************************************************************)
\* the initial load and every call have completed
KeysQuiet ==
    /\ keyStore.load.pc = "done"
    /\ \A c \in 1..Len(keyStore.calls) : keyStore.calls[c].pc = "done"

ActiveKeyValid ==
    /\ keyStore.activeKeyId = 0 \/ keyStore.activeKeyId \in Ids(keyStore.apiKeys)
    /\ Len(keyStore.apiKeys) > 0 => keyStore.activeKeyId # 0

C25_ActiveKeyIsAKey == KeysQuiet /\ ~keyStore.early => ActiveKeyValid

(***************************************************************************)
(* C26: for every interleaving of the initial load and of addApiKey,       *)
(* removeApiKey and setActiveKey calls, once all of them have completed    *)
(* the key list and the active key id in storage equal the in-memory       *)
(* apiKeys and activeKeyId, and every key that was added and not removed   *)
(* is in both.                                                             *)
(***************************************************************************)
\* the key list in storage; an item never set reads as no key
PersistedKeys == IF keyStore.storedKeys.present THEN keyStore.storedKeys.value ELSE <<>>

StorageMatchesMemory ==
    /\ PersistedKeys = keyStore.apiKeys
    /\ keyStore.storedActive = keyStore.activeKeyId

NoAddedKeyLost ==
    (keyStore.added \ keyStore.removed)
        \subseteq (Ids(keyStore.apiKeys) \cap Ids(PersistedKeys))

C26_StorageAndMemoryAgree == KeysQuiet => StorageMatchesMemory /\ NoAddedKeyLost

(***************************************************************************)
(* The editor screen (EditorScreen): the list of layers, bottom first, the *)
(* active layer and the canvas size.  A layer id is `layer_${Date.now()}`; *)
(* layers are created by user actions more than a millisecond apart, so    *)
(* the n-th layer created has the id n.  activeLayerId 0 is null.  The     *)
(* text of a size field is the list of its characters.                     *)
(***************************************************************************)
\* at most MaxLayersCreated layers are created
MaxLayersCreated == 3

LayerUris == {"cutout", "gallery", "object"}

\* what an array holds at an index that was never assigned
UndefinedLayer == [id |-> -1, uri |-> "undefined"]

Digits == <<"0", "1", "2", "3", "4", "5", "6", "7", "8", "9">>

IsDigit(ch) == \E d \in 1..10 : Digits[d] = ch

DigitValue(ch) == (CHOOSE d \in 1..10 : Digits[d] = ch) - 1

\* parseInt of a text without sign or leading blanks: the number its leading
\* digits spell, NaN when it starts with no digit
RECURSIVE LeadingDigits(_, _)
LeadingDigits(text, value) ==
    IF Len(text) > 0 /\ IsDigit(Head(text))
    THEN LeadingDigits(Tail(text), 10 * value + DigitValue(Head(text)))
    ELSE value

ParseInt(text) ==
    IF Len(text) > 0 /\ IsDigit(Head(text)) THEN Num(LeadingDigits(text, 0)) ELSE NaN

\* x || 400 for a number x
OrDefault(x, default) == IF IsNaN(x) \/ x = Num(0) THEN default ELSE x

CANVAS_SIZES ==
    [small |-> [width |-> Num(280), height |-> Num(280)],
     medium |-> [width |-> Num(340), height |-> Num(340)],
     large |-> [width |-> Num(400), height |-> Num(400)]]

\* the texts typed into the width and height fields
SizeTexts ==
    {<<"4", "0", "0">>, <<"1", "0", "0">>, <<"8", "0", "0">>, <<"9", "9">>,
     <<"8", "0", "1">>, <<"a">>, <<>>}

\* currentCanvasSize of the render
currentCanvasSize ==
    IF editor.canvasSize = "custom"
    THEN [width |-> OrDefault(ParseInt(editor.customCanvasWidth), Num(400)),
          height |-> OrDefault(ParseInt(editor.customCanvasHeight), Num(400))]
    ELSE CANVAS_SIZES[editor.canvasSize]

LayerIds(layers) == {layers[i].id : i \in 1..Len(layers)}

\* layers.findIndex(l => l.id === id), counted from 0; -1 when there is none
FindIndex(layers, id) ==
    IF id \in LayerIds(layers)
    THEN (CHOOSE i \in 1..Len(layers) :
              layers[i].id = id /\ \A j \in 1..(i - 1) : layers[j].id # id) - 1
    ELSE -1

\* the screen as mounted, with the layer of the cutout it was opened with, if
\* any
InitEditor ==
    /\ \E withCutout \in BOOLEAN :
           editor =
               [layers |-> IF withCutout THEN <<[id |-> 1, uri |-> "cutout"]>> ELSE <<>>,
                activeLayerId |-> IF withCutout THEN 1 ELSE 0,
                canvasSize |-> "medium",
                customCanvasWidth |-> <<"4", "0", "0">>,
                customCanvasHeight |-> <<"4", "0", "0">>,
                created |-> IF withCutout THEN 1 ELSE 0,
                crashed |-> FALSE]
    /\ IdleOverlay
    /\ IdlePath
    /\ IdleCutout
    /\ IdleApi
    /\ IdleMarkers
    /\ IdleScreen
    /\ IdleKeys
    /\ IdleCamera

\* addFromGallery once the picker has returned an image, or addSavedObject
AddLayer ==
    /\ ~editor.crashed
    /\ editor.created < MaxLayersCreated
    /\ \E uri \in {"gallery", "object"} :
           LET newLayer == [id |-> editor.created + 1, uri |-> uri]
           IN  editor' = [editor EXCEPT !.layers = Append(@, newLayer),
                                        !.activeLayerId = newLayer.id,
                                        !.created = @ + 1]
    /\ UNCHANGED outsideEditor

\* onSelect of a layer on the canvas
SelectLayer ==
    /\ ~editor.crashed
    /\ \E i \in 1..Len(editor.layers) :
           /\ editor.layers[i].id # editor.activeLayerId
           /\ editor' = [editor EXCEPT !.activeLayerId = editor.layers[i].id]
    /\ UNCHANGED outsideEditor

\* deleteActiveLayer (its button is disabled without an active layer): the
\* new active id is read from the list as it was before the removal
DeleteActiveLayer ==
    /\ ~editor.crashed
    /\ editor.activeLayerId # 0
    /\ editor' =
           [editor EXCEPT
                !.layers = SelectSeq(@, LAMBDA layer : layer.id # editor.activeLayerId),
                !.activeLayerId = IF Len(editor.layers) > 1 THEN editor.layers[1].id ELSE 0]
    /\ UNCHANGED outsideEditor

\* the array after [a[i], a[j]] = [a[j], a[i]], i and j counted from 0: an
\* index below 0 reads as undefined and is not an element when written
Swapped(layers, i, j) ==
    LET Entry(k) == IF k >= 0 /\ k < Len(layers) THEN layers[k + 1] ELSE UndefinedLayer
    IN  [k \in 1..Len(layers) |->
             IF k - 1 = i THEN Entry(j) ELSE IF k - 1 = j THEN Entry(i) ELSE layers[k]]

\* rendering a list with an undefined entry throws (layer.id of undefined)
Renders(layers) == \A k \in 1..Len(layers) : layers[k] # UndefinedLayer

\* bringLayerForward
BringLayerForward ==
    /\ ~editor.crashed
    /\ editor.activeLayerId # 0
    /\ LET currentIndex == FindIndex(editor.layers, editor.activeLayerId)
       IN  IF currentIndex < Len(editor.layers) - 1
           THEN LET newLayers == Swapped(editor.layers, currentIndex, currentIndex + 1)
                IN  editor' = [editor EXCEPT !.layers = newLayers,
                                             !.crashed = ~Renders(newLayers)]
           ELSE UNCHANGED editor
    /\ UNCHANGED outsideEditor

\* sendLayerBackward
SendLayerBackward ==
    /\ ~editor.crashed
    /\ editor.activeLayerId # 0
    /\ LET currentIndex == FindIndex(editor.layers, editor.activeLayerId)
       IN  IF currentIndex > 0
           THEN LET newLayers == Swapped(editor.layers, currentIndex, currentIndex - 1)
                IN  editor' = [editor EXCEPT !.layers = newLayers,
                                             !.crashed = ~Renders(newLayers)]
           ELSE UNCHANGED editor
    /\ UNCHANGED outsideEditor

\* onChangeText of the width or the height field of the size dialog
EditCustomSize ==
    /\ ~editor.crashed
    /\ \E text \in SizeTexts :
           \/ /\ text # editor.customCanvasWidth
              /\ editor' = [editor EXCEPT !.customCanvasWidth = text]
           \/ /\ text # editor.customCanvasHeight
              /\ editor' = [editor EXCEPT !.customCanvasHeight = text]
    /\ UNCHANGED outsideEditor

\* the size is a number from 100 to 800
ValidSize(size) == ~IsNaN(size) /\ ~RLt(size, Num(100)) /\ ~RGt(size, Num(800))

\* applyCustomCanvasSize: the editor state after the Apply button of the size
\* dialog (the alert of the rejected case changes no state)
Applied(e) ==
    LET width == ParseInt(e.customCanvasWidth)
        height == ParseInt(e.customCanvasHeight)
    IN  IF ValidSize(width) /\ ValidSize(height)
        THEN [e EXCEPT !.canvasSize = "custom"]
        ELSE e

ApplyCustomCanvasSize ==
    /\ ~editor.crashed
    /\ editor' = Applied(editor)
    /\ UNCHANGED outsideEditor

\* a preset of the size dialog
SelectCanvasSize ==
    /\ ~editor.crashed
    /\ \E size \in {"small", "medium", "large"} :
           /\ size # editor.canvasSize
           /\ editor' = [editor EXCEPT !.canvasSize = size]
    /\ UNCHANGED outsideEditor

NextEditor ==
    \/ AddLayer
    \/ SelectLayer
    \/ DeleteActiveLayer
    \/ BringLayerForward
    \/ SendLayerBackward
    \/ EditCustomSize
    \/ ApplyCustomCanvasSize
    \/ SelectCanvasSize

SpecEditor == InitEditor /\ [][NextEditor]_vars

\* C27: in every state of the editor the active layer id is null or the id of
\* a layer of the list; after deleteActiveLayer in particular it is not the
\* id of the layer just deleted.
ActiveLayerInList ==
    editor.activeLayerId = 0 \/ editor.activeLayerId \in LayerIds(editor.layers)

C27_ActiveLayerIsALayer == ActiveLayerInList

\* C28: a bringLayerForward or sendLayerBackward step keeps the set of layers
\* and the active id, leaves every entry a layer, and moves the active layer
\* by exactly one position, or changes nothing when the layer is already
\* topmost (forward) or bottommost (backward).
SameLayers ==
    /\ Len(editor'.layers) = Len(editor.layers)
    /\ {editor'.layers[k] : k \in 1..Len(editor'.layers)} =
           {editor.layers[k] : k \in 1..Len(editor.layers)}
    /\ Renders(editor'.layers)
    /\ editor'.activeLayerId = editor.activeLayerId

ActiveIndex == FindIndex(editor.layers, editor.activeLayerId)

MovedBy(offset) ==
    FindIndex(editor'.layers, editor.activeLayerId) = ActiveIndex + offset

ForwardReorders ==
    BringLayerForward =>
        /\ SameLayers
        /\ IF ActiveIndex = Len(editor.layers) - 1
           THEN editor'.layers = editor.layers
           ELSE MovedBy(1)

BackwardReorders ==
    SendLayerBackward =>
        /\ SameLayers
        /\ IF ActiveIndex = 0 THEN editor'.layers = editor.layers ELSE MovedBy(-1)

C28_ForwardBackwardOnlyReorder == [][ForwardReorders /\ BackwardReorders]_vars

\* the same steps taken with an active layer that is in the list
C28_ReorderOfListedLayer ==
    [][ActiveLayerInList => ForwardReorders /\ BackwardReorders]_vars

\* C29: while the canvas size is 'custom' the canvas width and height in use
\* are both from 100 to 800, and Apply with a width or height that is out of
\* that range or no number changes neither canvasSize nor the dimensions.
CustomSizeInRange ==
    editor.canvasSize = "custom" =>
        ValidSize(currentCanvasSize.width) /\ ValidSize(currentCanvasSize.height)

InvalidApplyChangesNothing ==
    ~(ValidSize(ParseInt(editor.customCanvasWidth))
          /\ ValidSize(ParseInt(editor.customCanvasHeight)))
        => Applied(editor) = editor

C29_CustomSizeWithinRange == CustomSizeInRange /\ InvalidApplyChangesNothing

(***************************************************************************)
(* The camera screen (CameraScreen): the view mode, the selected images    *)
(* and the index of the image shown, counted from 0.  picker is the        *)
(* function awaiting the system image picker ("pick" for pickImages, "add" *)
(* for addMore); while the picker is open it covers the screen and no      *)
(* button can be pressed.  captures holds, for every takePhoto whose       *)
(* takePictureAsync is still awaited, the selectedImages.length of the     *)
(* render it was called in.  pickers and shots count the picker launches   *)
(* and the captures; stale records that a capture has resumed with a list  *)
(* length other than the one it was called with.                           *)
(***************************************************************************)
\* at most MaxPickerUses launches of the image picker
MaxPickerUses == 2

\* at most MaxShots presses of the shutter
MaxShots == 2

\* the picker returns at most MaxPicked assets
MaxPicked == 2

\* the uris of n assets of the picker
Assets(n) == [i \in 1..n |-> "asset"]

InitCamera ==
    /\ \E granted \in BOOLEAN :
           camera =
               [viewMode |-> "menu", granted |-> granted, selectedImages |-> <<>>,
                activeImageIndex |-> 0, picker |-> "none", captures |-> <<>>,
                pickers |-> 0, shots |-> 0, stale |-> FALSE]
    /\ IdleOverlay
    /\ IdlePath
    /\ IdleCutout
    /\ IdleApi
    /\ IdleMarkers
    /\ IdleScreen
    /\ IdleKeys
    /\ IdleEditor

\* which of the three views is rendered
MenuView == ~(camera.viewMode = "camera")
                /\ ~(camera.viewMode = "preview" /\ Len(camera.selectedImages) > 0)

CameraView == camera.viewMode = "camera"

PreviewView == camera.viewMode = "preview" /\ Len(camera.selectedImages) > 0

CanPress == camera.picker = "none"

\* openCamera from the menu or the preview; the permission request of the
\* first use is granted or denied
OpenCamera ==
    /\ CanPress
    /\ MenuView \/ PreviewView
    /\ \E grantedNow \in BOOLEAN :
           IF camera.granted \/ grantedNow
           THEN camera' = [camera EXCEPT !.granted = TRUE, !.viewMode = "camera"]
           ELSE UNCHANGED camera
    /\ UNCHANGED outsideCamera

\* goBack of the camera view or of the preview
GoBack ==
    /\ CanPress
    /\ CameraView \/ PreviewView
    /\ camera' = [camera EXCEPT !.viewMode = "menu"]
    /\ UNCHANGED outsideCamera

\* pickImages up to its await: the gallery card of the menu or the gallery
\* button of the camera view opens the picker
PickImages ==
    /\ CanPress
    /\ MenuView \/ CameraView
    /\ camera.pickers < MaxPickerUses
    /\ camera' = [camera EXCEPT !.picker = "pick", !.pickers = @ + 1]
    /\ UNCHANGED outsideCamera

\* addMore up to its await: the plus button of the thumbnail strip
AddMore ==
    /\ CanPress
    /\ PreviewView
    /\ camera.pickers < MaxPickerUses
    /\ camera' = [camera EXCEPT !.picker = "add", !.pickers = @ + 1]
    /\ UNCHANGED outsideCamera

\* the picker returns count assets, none when it was cancelled: the rest of
\* pickImages or of addMore
PickerDone ==
    /\ camera.picker # "none"
    /\ \E count \in 0..MaxPicked :
           camera' =
               IF count = 0
               THEN [camera EXCEPT !.picker = "none"]
               ELSE IF camera.picker = "pick"
               THEN [camera EXCEPT !.picker = "none",
                                   !.selectedImages = Assets(count),
                                   !.activeImageIndex = 0,
                                   !.viewMode = "preview"]
               ELSE [camera EXCEPT !.picker = "none",
                                   !.selectedImages = @ \o Assets(count)]
    /\ UNCHANGED outsideCamera

\* takePhoto up to its await: the shutter of the camera view
TakePhoto ==
    /\ CanPress
    /\ CameraView
    /\ camera.shots < MaxShots
    /\ camera' = [camera EXCEPT !.captures = Append(@, Len(camera.selectedImages)),
                                !.shots = @ + 1]
    /\ UNCHANGED outsideCamera

Drop(seq, i) == [k \in 1..(Len(seq) - 1) |-> IF k < i THEN seq[k] ELSE seq[k + 1]]

\* takePictureAsync resolves with a photo: the rest of takePhoto, with the
\* selectedImages.length of the render it was called in
PhotoTaken ==
    /\ \E i \in 1..Len(camera.captures) :
           camera' =
               [camera EXCEPT !.captures = Drop(@, i),
                              !.selectedImages = Append(@, "photo"),
                              !.activeImageIndex = camera.captures[i],
                              !.viewMode = "preview",
                              !.stale = @ \/ camera.captures[i] # Len(camera.selectedImages)]
    /\ UNCHANGED outsideCamera

\* takePictureAsync rejects or resolves without a uri
PhotoFailed ==
    /\ \E i \in 1..Len(camera.captures) :
           camera' = [camera EXCEPT !.captures = Drop(@, i)]
    /\ UNCHANGED outsideCamera

\* the trash button of the preview: removeImage(activeImageIndex)
RemoveImage ==
    /\ CanPress
    /\ PreviewView
    /\ LET index == camera.activeImageIndex
           length == Len(camera.selectedImages)
       IN  camera' =
               [camera EXCEPT
                    !.selectedImages =
                        IF index < length THEN Drop(@, index + 1) ELSE @,
                    !.activeImageIndex =
                        IF @ >= length - 1
                        THEN (IF length - 2 > 0 THEN length - 2 ELSE 0)
                        ELSE @,
                    !.viewMode = IF length <= 1 THEN "menu" ELSE @]
    /\ UNCHANGED outsideCamera

\* a thumbnail of the strip is pressed
SelectThumbnail ==
    /\ CanPress
    /\ PreviewView
    /\ \E index \in 0..(Len(camera.selectedImages) - 1) :
           /\ index # camera.activeImageIndex
           /\ camera' = [camera EXCEPT !.activeImageIndex = index]
    /\ UNCHANGED outsideCamera

NextCamera ==
    \/ OpenCamera
    \/ GoBack
    \/ PickImages
    \/ AddMore
    \/ PickerDone
    \/ TakePhoto
    \/ PhotoTaken
    \/ PhotoFailed
    \/ RemoveImage
    \/ SelectThumbnail

SpecCamera == InitCamera /\ [][NextCamera]_vars

\* C30: whenever the preview is shown (view mode 'preview', at least one
\* image) activeImageIndex is an index of selectedImages, also when a gallery
\* pick completes while a capture is still pending.
ActiveImageValid ==
    camera.activeImageIndex \in 0..(Len(camera.selectedImages) - 1)

C30_ActiveImageIndexValid == PreviewView => ActiveImageValid

\* the same while no capture has resumed on a list it was not called with
C30_ValidWithoutStaleCapture == PreviewView /\ ~camera.stale => ActiveImageValid

=============================================================================
